---- MODULE Spec2Model ----
(***************************************************************************)
(* A model of the llm-agents provider adapters (OpenAIProvider,            *)
(* GoogleProvider) and of the calls made on them.  One call is in flight   *)
(* at a time; every await of the injected fetchFn is a step of its own,    *)
(* and the backend's answer to it is chosen nondeterministically.          *)
(*                                                                         *)
(* Strings the code inspects (message contents, ids, names) are sequences  *)
(* of one-character strings, so that toLowerCase, includes, replace,       *)
(* split and join are computed and not assumed.                            *)
(***************************************************************************)
EXTENDS Integers, Sequences, FiniteSets, TLC

VARIABLES
    pc,       \* where the call in flight is suspended: "idle", an await, or "done"
    call,     \* the call in flight: adapter, operation and arguments
    locals,   \* the handler's local variables that live across an await
    net,      \* the requests handed to fetchFn during this call, in order
    replies,  \* what fetchFn resolved to, request by request
    outcome,  \* how the call ended: nothing yet, a returned value, or a thrown error
    jobId,    \* the batchId createBatch returned to the caller, while it holds it
    config    \* the adapters' fields: apiKey and baseUrl of each

vars == <<pc, call, locals, net, replies, outcome, jobId, config>>

(***************************************************************************)
(* Bounds of the model.                                                    *)
(***************************************************************************)
MaxItems == 2      \* explicit items of a batch
MaxLines == 2      \* lines of a downloaded output document
MaxCalls == 2      \* calls in flight together
HugePad == 200000000  \* filler characters of an oversized message content

(***************************************************************************)
(* Optional values: {} is undefined, {v} is the value v.                   *)
(***************************************************************************)
None == {}
Some(v) == {v}
Get(o) == CHOOSE v \in o : TRUE
Opt(S) == {None} \cup {Some(v) : v \in S}

Max(a, b) == IF a >= b THEN a ELSE b
Min(a, b) == IF a <= b THEN a ELSE b

(***************************************************************************)
(* String functions of the JavaScript runtime, on character sequences.     *)
(***************************************************************************)
UpperCase == <<"A","B","C","D","E","F","G","H","I","J","K","L","M",
               "N","O","P","Q","R","S","T","U","V","W","X","Y","Z">>
LowerCase == <<"a","b","c","d","e","f","g","h","i","j","k","l","m",
               "n","o","p","q","r","s","t","u","v","w","x","y","z">>
DigitChars == <<"0","1","2","3","4","5","6","7","8","9">>

Range(f) == {f[i] : i \in DOMAIN f}

\* String.prototype.toLowerCase, one character
ToLowerChar(c) ==
    IF \E i \in DOMAIN UpperCase : UpperCase[i] = c
    THEN LowerCase[CHOOSE i \in DOMAIN UpperCase : UpperCase[i] = c]
    ELSE c

\* String.prototype.toLowerCase
toLowerCase(s) == [i \in DOMAIN s |-> ToLowerChar(s[i])]

\* String.prototype.includes
includes(s, sub) ==
    \E i \in 0..(Len(s) - Len(sub)) : SubSeq(s, i + 1, i + Len(sub)) = sub

\* the character class [a-zA-Z0-9]
IsAlnum(c) == c \in Range(UpperCase) \cup Range(LowerCase) \cup Range(DigitChars)

\* s.replace(/[^a-zA-Z0-9]/g, '')
stripNonAlnum(s) == SelectSeq(s, IsAlnum)

\* String.prototype.split with a one-character separator
RECURSIVE split(_, _)
split(s, sep) ==
    IF \A i \in DOMAIN s : s[i] # sep
    THEN <<s>>
    ELSE LET k == CHOOSE i \in DOMAIN s :
                      s[i] = sep /\ \A j \in 1..(i - 1) : s[j] # sep
         IN  <<SubSeq(s, 1, k - 1)>> \o split(SubSeq(s, k + 1, Len(s)), sep)

\* Array.prototype.join with a one-character separator
RECURSIVE join(_, _)
join(parts, sep) ==
    IF Len(parts) = 0 THEN <<>>
    ELSE IF Len(parts) = 1 THEN parts[1]
    ELSE parts[1] \o <<sep>> \o join(Tail(parts), sep)

\* Array.prototype.slice(1)
slice1(a) == IF Len(a) = 0 THEN <<>> ELSE Tail(a)

\* the decimal digits of a natural number, as `${n}` prints it
RECURSIVE numberToString(_)
numberToString(n) ==
    IF n < 10 THEN <<DigitChars[n + 1]>>
    ELSE numberToString(n \div 10) \o <<DigitChars[(n % 10) + 1]>>

(***************************************************************************)
(* types.ts: the enums.                                                    *)
(***************************************************************************)
Provider == [Google |-> "google", OpenAI |-> "openai"]
ModelName == [Gemini2Flash |-> "Gemini 2.0 Flash", Gemini15 |-> "Gemini 1.5",
              GPT4oMini |-> "GPT-4o-mini"]
ModelNames == Range(ModelName)

(***************************************************************************)
(* Values of the caller's example object (options.sampleObj), tagged with  *)
(* what typeof says of them.  An object holds its entries in enumeration   *)
(* order.                                                                  *)
(***************************************************************************)
Undefined == [t |-> "undefined"]
NullV == [t |-> "null"]
StrV(s) == [t |-> "string", s |-> s]
NumV(n) == [t |-> "number", n |-> n]
BoolV(b) == [t |-> "boolean", b |-> b]
ArrV(a) == [t |-> "array", a |-> a]
ObjV(o) == [t |-> "object", o |-> o]

\* the typeof operator
typeof(v) ==
    IF v.t \in {"null", "array", "object"} THEN "object" ELSE v.t

\* ToBoolean, as && and if apply it
truthy(v) ==
    CASE v.t = "undefined" -> FALSE
      [] v.t = "null" -> FALSE
      [] v.t = "string" -> Len(v.s) > 0
      [] v.t = "number" -> v.n # 0
      [] v.t = "boolean" -> v.b
      [] OTHER -> TRUE

\* ToBoolean of an optional string (if (options.batchName), prompt.id?. ... || ...)
truthyStr(o) == o # None /\ Len(Get(o)) > 0

(***************************************************************************)
(* Message contents.  A content is its characters followed by `pad`        *)
(* further characters "x": the padding stands for a long tail the code     *)
(* only ever measures or searches, and a run of "x" holds no "json".       *)
(***************************************************************************)
Text(chars) == [chars |-> chars, pad |-> 0]
TextLen(t) == Len(t.chars) + t.pad

\* a search for "json" that leaves toLowerCase out
contentIncludesJson_caseSensitive(content) ==
    includes(content.chars, <<"j", "s", "o", "n">>)

\* content.toLowerCase().includes('json')
contentIncludesJson(content) ==
    includes(toLowerCase(content.chars), <<"j", "s", "o", "n">>)

(***************************************************************************)
(* A message list is its explicit messages followed by `more` further      *)
(* copies of FillerMessage, which holds no "json"; an item list likewise.   *)
(* The input sets below use more > 0 only for lists longer than the limits *)
(* the code checks, so no handler gets to read a filler element.           *)
(***************************************************************************)
FillerMessage == [role |-> "user", content |-> Text(<<"x">>)]
MsgList(msgs) == [msgs |-> msgs, more |-> 0]
length(list) == Len(list.msgs) + list.more

\* messages.some(msg => msg.content.toLowerCase().includes('json'))
someMessageIncludesJson(list) ==
    \E i \in DOMAIN list.msgs : contentIncludesJson(list.msgs[i].content)

(***************************************************************************)
(* Errors.  `name` is the throw site; the other fields are the values the  *)
(* message interpolates.                                                   *)
(***************************************************************************)
Err(name) ==
    [name |-> name, model |-> "", index |-> -1, payload |-> "",
     id |-> <<>>, status |-> "", agent |-> <<>>, provider |-> ""]

NoOutcome == [kind |-> "none"]
Threw(e) == [kind |-> "error", error |-> e]
Returned(v) == [kind |-> "ok", value |-> v]

(***************************************************************************)
(* The injected transport.  A request is what fetchFn is called with; a    *)
(* response is what it resolves to.                                        *)
(***************************************************************************)
ErrorPayloads == {"invalid_request_error", "server_error"}

(***************************************************************************)
(* JSON.stringify(sampleObj, replacer, 2) as enhancePromptWithStructure    *)
(* calls it.                                                               *)
(***************************************************************************)
ExampleChars == <<"e", "x", "a", "m", "p", "l", "e">>

\* the replacer: a non-empty array becomes an array of one example item
replacer(value) ==
    IF value.t = "array" /\ Len(value.a) > 0
    THEN ArrV(<<IF typeof(value.a[1]) = "object" THEN ObjV(<<>>)
                ELSE StrV(ExampleChars)>>)
    ELSE value

RECURSIVE indentation(_)
indentation(level) ==
    IF level = 0 THEN <<>> ELSE <<" ", " ">> \o indentation(level - 1)

quote(s) == <<"\"">> \o s \o <<"\"">>

RECURSIVE stringify(_, _)
RECURSIVE stringifyEntries(_, _, _)
\* the entries of an object (keyed) or the elements of an array, one per line
stringifyEntries(entries, keyed, level) ==
    IF Len(entries) = 0 THEN <<>>
    ELSE LET e == entries[1]
             v == replacer(IF keyed THEN e[2] ELSE e)
             one == indentation(level)
                    \o (IF keyed THEN quote(e[1]) \o <<":", " ">> ELSE <<>>)
                    \o (IF v.t = "undefined" THEN <<"n", "u", "l", "l">>
                        ELSE stringify(v, level))
         IN  one \o (IF Len(entries) > 1 THEN <<",", "\n">> ELSE <<>>)
                 \o stringifyEntries(Tail(entries), keyed, level)

\* `value` has been through the replacer already
stringify(value, level) ==
    CASE value.t = "null" -> <<"n", "u", "l", "l">>
      [] value.t = "string" -> quote(value.s)
      [] value.t = "number" -> numberToString(value.n)
      [] value.t = "boolean" ->
            IF value.b THEN <<"t", "r", "u", "e">>
            ELSE <<"f", "a", "l", "s", "e">>
      [] value.t = "array" ->
            IF Len(value.a) = 0 THEN <<"[", "]">>
            ELSE <<"[", "\n">> \o stringifyEntries(value.a, FALSE, level + 1)
                 \o <<"\n">> \o indentation(level) \o <<"]">>
      [] value.t = "object" ->
            LET kept == SelectSeq(value.o,
                            LAMBDA e : replacer(e[2]).t # "undefined")
            IN  IF Len(kept) = 0 THEN <<"{", "}">>
                ELSE <<"{", "\n">> \o stringifyEntries(kept, TRUE, level + 1)
                     \o <<"\n">> \o indentation(level) \o <<"}">>

\* typeof sampleObj, as the template literal prints it
typeofChars(v) ==
    CASE typeof(v) = "number" -> <<"n", "u", "m", "b", "e", "r">>
      [] typeof(v) = "boolean" -> <<"b", "o", "o", "l", "e", "a", "n">>
      [] typeof(v) = "string" -> <<"s", "t", "r", "i", "n", "g">>
      [] typeof(v) = "object" -> <<"o", "b", "j", "e", "c", "t">>
      [] OTHER -> <<"u", "n", "d", "e", "f", "i", "n", "e", "d">>

\* "Please provide the response in the following JSON structure: "
StructureInstruction ==
    <<"P","l","e","a","s","e"," ","p","r","o","v","i","d","e"," ","t","h",
      "e"," ","r","e","s","p","o","n","s","e"," ","i","n"," ","t","h","e",
      " ","f","o","l","l","o","w","i","n","g"," ","J","S","O","N"," ","s",
      "t","r","u","c","t","u","r","e",":"," ">>

\* Array.prototype.findLastIndex(m => m.role === 'user'), 1-based; 0 for -1
findLastUserIndex(msgs) ==
    IF \E i \in DOMAIN msgs : msgs[i].role = "user"
    THEN CHOOSE i \in DOMAIN msgs :
             msgs[i].role = "user" /\ \A j \in (i + 1)..Len(msgs) : msgs[j].role # "user"
    ELSE 0

\* OpenAIProvider.enhancePromptWithStructure, GoogleProvider.enhancePromptWithStructure
enhancePromptWithStructure(messages, sampleObj) ==
    LET structure == IF typeof(sampleObj) = "object"
                     THEN stringify(replacer(sampleObj), 0)
                     ELSE typeofChars(sampleObj)
        lastUserMessageIndex == findLastUserIndex(messages.msgs)
        old == messages.msgs[lastUserMessageIndex]
    IN  IF lastUserMessageIndex >= 1
        THEN [messages EXCEPT !.msgs[lastUserMessageIndex] =
                 [role |-> old.role,
                  content |-> [old.content EXCEPT
                      !.chars = @ \o <<"\n", "\n">> \o StructureInstruction
                                  \o structure]]]
        ELSE [messages EXCEPT !.msgs =
                 Append(@, [role |-> "user",
                            content |-> Text(StructureInstruction \o structure)])]

\* an enhancePromptWithStructure that writes into the array it was given
enhancePromptWithStructure_inPlace(messages, sampleObj) ==
    [messages |-> enhancePromptWithStructure(messages, sampleObj),
     enhancedMessages |-> enhancePromptWithStructure(messages, sampleObj)]

\* enhancePromptWithStructure on the heap: what the caller's array holds
\* afterwards and what is returned.  Every write goes to the copy
\* [...messages] and the replaced element is a fresh object.
enhancePromptWithStructure_heap(messages, sampleObj) ==
    [messages |-> messages,
     enhancedMessages |-> enhancePromptWithStructure(messages, sampleObj)]

(***************************************************************************)
(* The adapters' static model descriptors.                                 *)
(***************************************************************************)
\* OpenAIProvider.getModels
OpenAI_getModels ==
    <<[id |-> "gpt-4o-mini", name |-> ModelName.GPT4oMini,
       provider |-> Provider.OpenAI,
       capabilities |-> [structuredOutput |-> TRUE, batchRequests |-> TRUE]]>>

\* GoogleProvider.getModels
Google_getModels ==
    <<[id |-> "gemini-2.0-flash", name |-> ModelName.Gemini2Flash,
       provider |-> Provider.Google,
       capabilities |-> [structuredOutput |-> TRUE, batchRequests |-> FALSE]],
      [id |-> "gemini-1.5-pro", name |-> ModelName.Gemini15,
       provider |-> Provider.Google,
       capabilities |-> [structuredOutput |-> TRUE, batchRequests |-> FALSE]]>>

\* this.getModels().find(m => m.name === model)
findModel(models, model) ==
    IF \E i \in DOMAIN models : models[i].name = model
    THEN Some(models[CHOOSE i \in DOMAIN models :
                  models[i].name = model
                  /\ \A j \in 1..(i - 1) : models[j].name # model])
    ELSE None

\* options.sampleObj && typeof options.sampleObj !== 'string'
needsStructuredOutput(sampleObj) ==
    truthy(sampleObj) /\ typeof(sampleObj) # "string"

(***************************************************************************)
(* The adapters' configuration, fixed by the constructors.                 *)
(***************************************************************************)
BearerPrefix == <<"B", "e", "a", "r", "e", "r", " ">>

\* String.prototype.startsWith
startsWith(s, prefix) ==
    Len(s) >= Len(prefix) /\ SubSeq(s, 1, Len(prefix)) = prefix

\* `${this.apiKey.startsWith('Bearer ') ? '' : 'Bearer '}${this.apiKey}`
authorization(apiKey) ==
    (IF startsWith(apiKey, BearerPrefix) THEN <<>> ELSE BearerPrefix) \o apiKey

\* new OpenAIProvider(apiKey), with the default baseUrl
OpenAI_constructor(apiKey) ==
    [apiKey |-> apiKey, baseUrl |-> <<"https://api.openai.com", "v1">>]

\* new GoogleProvider(apiKey), with the default baseUrl
Google_constructor(apiKey) ==
    [apiKey |-> apiKey,
     baseUrl |-> <<"https://generativelanguage.googleapis.com", "v1">>]

ApiKey == <<"s", "k">>

\* a request of the OpenAI adapter: baseUrl/resource[/id][/suffix]
OpenAI_fetch(this, method, resource, id, suffix, body) ==
    [method |-> method, baseUrl |-> this.baseUrl,
     resource |-> resource, id |-> id, suffix |-> suffix,
     authorization |-> authorization(this.apiKey), body |-> body]

(***************************************************************************)
(* OpenAIProvider.formatMessages                                           *)
(***************************************************************************)
OpenAI_formatMessages(messages) ==
    [messages EXCEPT !.msgs =
        [i \in DOMAIN @ |-> [role |-> @[i].role, content |-> @[i].content]]]

(***************************************************************************)
(* JSON.stringify(batchRequest).length for the requests createBatch        *)
(* builds.  The characters of the model need no escaping.                  *)
(***************************************************************************)
messageJsonLength(m) ==
    Len("{\"role\":\"") + Len(m.role) + Len("\",\"content\":\"")
    + TextLen(m.content) + Len("\"}")

RECURSIVE sumMessageJsonLength(_)
sumMessageJsonLength(msgs) ==
    IF Len(msgs) = 0 THEN 0
    ELSE messageJsonLength(msgs[1]) + sumMessageJsonLength(Tail(msgs))

messagesJsonLength(messages) ==
    Len("[") + sumMessageJsonLength(messages.msgs)
    + messages.more * messageJsonLength(FillerMessage)
    + Max(length(messages) - 1, 0) * Len(",")
    + Len("]")

chatRequestJsonLength(chatRequest) ==
    Len("{\"model\":\"") + Len(chatRequest.model)
    + Len("\",\"messages\":") + messagesJsonLength(chatRequest.messages)
    + Len(",\"temperature\":") + Len(chatRequest.temperature)
    + (IF chatRequest.user = None THEN 0
       ELSE Len(",\"user\":\"") + Len(Get(chatRequest.user)) + Len("\""))
    + (IF chatRequest.response_format = None THEN 0
       ELSE Len(",\"response_format\":{\"type\":\"")
            + Len(Get(chatRequest.response_format)) + Len("\"}"))
    + Len("}")

batchRequestJsonLength(batchRequest) ==
    Len("{\"custom_id\":\"") + Len(batchRequest.custom_id)
    + Len("\",\"method\":\"") + Len(batchRequest.method)
    + Len("\",\"url\":\"") + Len(batchRequest.url)
    + Len("\",\"body\":") + chatRequestJsonLength(batchRequest.body)
    + Len("}")

(***************************************************************************)
(* What a handler does between two awaits: it throws, returns, or hands a  *)
(* request to fetchFn and suspends at `at` with its live locals.           *)
(***************************************************************************)
NoLocals == <<>>
Throw(e) == [pc |-> "done", outcome |-> Threw(e), fetch |-> None,
             locals |-> NoLocals]
Return(v) == [pc |-> "done", outcome |-> Returned(v), fetch |-> None,
              locals |-> NoLocals]
Await(at, request, live) == [pc |-> at, outcome |-> NoOutcome,
                             fetch |-> Some(request), locals |-> live]

(***************************************************************************)
(* OpenAIProvider.createBatch, up to the upload.                           *)
(***************************************************************************)
MAX_BATCH_REQUESTS == 50000
MAX_MESSAGES == 2048
MAX_JSONL_LENGTH == 200000000

\* prompts.length
promptsLength(prompts) == Len(prompts.items) + prompts.more

\* prompts.some(m => m.messages.some(msg => ...includes('json'))):
\* "found", "none", or "TypeError" when it reaches an item without messages
somePromptIncludesJson(prompts) ==
    LET stops == {i \in DOMAIN prompts.items :
                     \/ prompts.items[i].messages = None
                     \/ someMessageIncludesJson(Get(prompts.items[i].messages))}
        first == CHOOSE i \in stops : \A j \in stops : i <= j
    IN  IF stops = {} THEN "none"
        ELSE IF prompts.items[first].messages = None THEN "TypeError"
        ELSE "found"

\* a derivation whose generated ids leave the index out
createBatch_requestId_unindexed(i, prompt, options, now) ==
    LET stamped == numberToString(now)
        withBatch == IF truthyStr(options.batchName)
                     THEN stripNonAlnum(Get(options.batchName)) \o <<"_">> \o stamped
                     ELSE stamped
        withAgent == IF truthyStr(options.agentName)
                     THEN stripNonAlnum(Get(options.agentName)) \o <<"_">> \o withBatch
                     ELSE withBatch
    IN  IF prompt.id # None /\ Len(stripNonAlnum(Get(prompt.id))) > 0
        THEN stripNonAlnum(Get(prompt.id))
        ELSE withAgent

\* a derivation that takes an item's id as it is given
createBatch_requestId_rawItemId(i, prompt, options, now) ==
    LET stamped == numberToString(now) \o <<"_">> \o numberToString(i)
        withBatch == IF truthyStr(options.batchName)
                     THEN stripNonAlnum(Get(options.batchName)) \o <<"_">> \o stamped
                     ELSE stamped
        withAgent == IF truthyStr(options.agentName)
                     THEN stripNonAlnum(Get(options.agentName)) \o <<"_">> \o withBatch
                     ELSE withBatch
    IN  IF truthyStr(prompt.id) THEN Get(prompt.id) ELSE withAgent

\* the correlation id of the item at index i (from 0)
createBatch_requestId(i, prompt, options, now) ==
    LET stamped == numberToString(now) \o <<"_">> \o numberToString(i)
        withBatch == IF truthyStr(options.batchName)
                     THEN stripNonAlnum(Get(options.batchName)) \o <<"_">> \o stamped
                     ELSE stamped
        withAgent == IF truthyStr(options.agentName)
                     THEN stripNonAlnum(Get(options.agentName)) \o <<"_">> \o withBatch
                     ELSE withBatch
    IN  IF prompt.id # None /\ Len(stripNonAlnum(Get(prompt.id))) > 0
        THEN stripNonAlnum(Get(prompt.id))
        ELSE withAgent

\* options.user || options.agentName
userOrAgentName(options) ==
    IF truthyStr(options.user) THEN options.user
    ELSE IF truthyStr(options.agentName) THEN options.agentName
    ELSE None

\* the chat completion request embedded in one line
createBatch_chatRequest(modelInfo, messages, options) ==
    LET structured == needsStructuredOutput(options.sampleObj)
        chatRequest == [model |-> modelInfo.id,
                        messages |-> OpenAI_formatMessages(messages),
                        temperature |-> "0.7",
                        user |-> userOrAgentName(options),
                        response_format |-> None]
    IN  IF structured /\ modelInfo.capabilities.structuredOutput
        THEN [chatRequest EXCEPT !.response_format = Some("json_object")]
        ELSE IF structured /\ ~modelInfo.capabilities.structuredOutput
        THEN [chatRequest EXCEPT !.messages = OpenAI_formatMessages(
                 enhancePromptWithStructure(messages, options.sampleObj))]
        ELSE chatRequest

\* the for loop over the items, from index i on; nows[i + 1] is what
\* Date.now() returns in iteration i
RECURSIVE createBatch_loop(_, _, _, _, _, _, _)
createBatch_loop(prompts, modelInfo, options, nows, i, batchRequests, jsonlLength) ==
    IF i >= Len(prompts.items)
    THEN [error |-> None, batchRequests |-> batchRequests,
          jsonlLength |-> jsonlLength]
    ELSE LET prompt == prompts.items[i + 1]
             requestId == createBatch_requestId(i, prompt, options, nows[i + 1])
             messages == Get(prompt.messages)
             batchRequest == [custom_id |-> requestId, method |-> "POST",
                              url |-> "/v1/chat/completions",
                              body |-> createBatch_chatRequest(modelInfo, messages, options)]
             grown == jsonlLength + batchRequestJsonLength(batchRequest) + Len("\n")
             failed(e) == [error |-> Some(e), batchRequests |-> batchRequests,
                           jsonlLength |-> jsonlLength]
         IN  IF prompt.messages = None \/ length(messages) = 0
             THEN failed([Err("PromptEmpty") EXCEPT !.index = i])
             ELSE IF length(messages) > MAX_MESSAGES
             THEN failed([Err("TooManyMessages") EXCEPT !.index = i])
             ELSE IF grown > MAX_JSONL_LENGTH
             THEN failed(Err("JsonlTooLarge"))
             ELSE createBatch_loop(prompts, modelInfo, options, nows, i + 1,
                                   Append(batchRequests, batchRequest), grown)

\* OpenAIProvider.uploadFile, up to its fetch
uploadFile_fetch(this, content) ==
    OpenAI_fetch(this, "POST", "files", None, None,
                 Some([purpose |-> "batch", filename |-> "batch.jsonl",
                       file |-> content]))

\* a createBatch that streams: when the loop meets a bad item it has
\* uploaded the lines built so far
OpenAI_createBatch_streaming(this, prompts, model, options, nows) ==
    LET found == findModel(OpenAI_getModels, model)
        modelInfo == Get(found)
        structured == needsStructuredOutput(options.sampleObj)
        looped == createBatch_loop(prompts, modelInfo, options, nows, 0, <<>>, 0)
    IN  IF found = None
        THEN Throw([Err("ModelNotFound") EXCEPT !.model = model])
        ELSE IF ~modelInfo.capabilities.batchRequests
        THEN Throw([Err("NoBatchSupport") EXCEPT !.model = model])
        ELSE IF promptsLength(prompts) > MAX_BATCH_REQUESTS
        THEN Throw(Err("TooManyRequests"))
        ELSE IF structured /\ somePromptIncludesJson(prompts) = "TypeError"
        THEN Throw(Err("TypeError"))
        ELSE IF structured /\ somePromptIncludesJson(prompts) = "none"
        THEN Throw(Err("MissingJson"))
        ELSE IF looped.error # None
        THEN [Throw(Get(looped.error)) EXCEPT
                 !.fetch = Some(uploadFile_fetch(this, looped.batchRequests))]
        ELSE Await("createBatch_upload",
                   uploadFile_fetch(this, looped.batchRequests),
                   [batchRequests |-> looped.batchRequests])

\* createBatch from its entry to the await in uploadFile; the uploaded
\* content is the lines of jsonl, one batch request each
OpenAI_createBatch(this, prompts, model, options, nows) ==
    LET found == findModel(OpenAI_getModels, model)
        modelInfo == Get(found)
        structured == needsStructuredOutput(options.sampleObj)
        looped == createBatch_loop(prompts, modelInfo, options, nows, 0, <<>>, 0)
    IN  IF found = None
        THEN Throw([Err("ModelNotFound") EXCEPT !.model = model])
        ELSE IF ~modelInfo.capabilities.batchRequests
        THEN Throw([Err("NoBatchSupport") EXCEPT !.model = model])
        ELSE IF promptsLength(prompts) > MAX_BATCH_REQUESTS
        THEN Throw(Err("TooManyRequests"))
        ELSE IF structured /\ somePromptIncludesJson(prompts) = "TypeError"
        THEN Throw(Err("TypeError"))
        ELSE IF structured /\ somePromptIncludesJson(prompts) = "none"
        THEN Throw(Err("MissingJson"))
        ELSE IF looped.error # None
        THEN Throw(Get(looped.error))
        ELSE Await("createBatch_upload",
                   uploadFile_fetch(this, looped.batchRequests),
                   [batchRequests |-> looped.batchRequests])

\* Math.min(Math.max(Math.ceil(timeoutSeconds / 3600), 1), 24)
completionHours(timeoutSeconds) ==
    Min(Max(-((-timeoutSeconds) \div 3600), 1), 24)

\* a createBatch that submits its job for a file id of its own making
createBatch_uploaded_ownFileId(this, live, options, response) ==
    IF ~response.ok
    THEN Throw([Err("UploadFailed") EXCEPT !.payload = response.error])
    ELSE Await("createBatch_create",
               OpenAI_fetch(this, "POST", "batches", None, None,
                            Some([input_file_id |-> <<"b", "a", "t", "c", "h">>,
                                  endpoint |-> "/v1/chat/completions",
                                  completion_window |-> <<"2", "4", "h">>])),
               live)

\* createBatch from the upload's response to the job creation request
createBatch_uploaded(this, live, options, response) ==
    IF ~response.ok
    THEN Throw([Err("UploadFailed") EXCEPT !.payload = response.error])
    ELSE LET fileId == response.json.id
             window == IF options.timeoutSeconds # None
                          /\ Get(options.timeoutSeconds) # 0
                       THEN numberToString(completionHours(Get(options.timeoutSeconds)))
                            \o <<"h">>
                       ELSE <<"2", "4", "h">>
             batchOptions == [input_file_id |-> fileId,
                              endpoint |-> "/v1/chat/completions",
                              completion_window |-> window]
         IN  Await("createBatch_create",
                   OpenAI_fetch(this, "POST", "batches", None, None,
                                Some(batchOptions)),
                   live)

\* a createBatch that returns the ids last submitted first
createBatch_created_reversed(live, response) ==
    IF ~response.ok
    THEN Throw([Err("CreateBatchFailed") EXCEPT !.payload = response.error])
    ELSE Return([requestIds |-> [k \in DOMAIN live.batchRequests |->
                     live.batchRequests[Len(live.batchRequests) + 1 - k].custom_id],
                 batchId |-> response.json.id])

\* createBatch from the job creation's response to its return
createBatch_created(live, response) ==
    IF ~response.ok
    THEN Throw([Err("CreateBatchFailed") EXCEPT !.payload = response.error])
    ELSE Return([requestIds |-> [k \in DOMAIN live.batchRequests |->
                                    live.batchRequests[k].custom_id],
                 batchId |-> response.json.id])

(***************************************************************************)
(* OpenAIProvider.checkBatch, cancelBatch.                                 *)
(***************************************************************************)
\* batchId.includes('_') ? batchId.split('_').slice(1).join('_') : batchId
actualBatchId(batchId) ==
    IF includes(batchId, <<"_">>)
    THEN join(slice1(split(batchId, "_")), "_")
    ELSE batchId

\* a mapping that takes a job being cancelled for one still running
mapOpenAIBatchStatus_cancelling(status) ==
    CASE status \in {"validating", "processing", "cancelling"} -> "processing"
      [] status = "completed" -> "completed"
      [] status \in {"failed", "cancelled", "expired"} -> "failed"
      [] OTHER -> "pending"

\* OpenAIProvider.mapOpenAIBatchStatus
mapOpenAIBatchStatus(status) ==
    CASE status \in {"validating", "processing"} -> "processing"
      [] status = "completed" -> "completed"
      [] status \in {"failed", "cancelled", "cancelling", "expired"} -> "failed"
      [] OTHER -> "pending"

\* checkBatch up to its fetch
OpenAI_checkBatch(this, batchId, at) ==
    Await(at, OpenAI_fetch(this, "GET", "batches", Some(actualBatchId(batchId)),
                           None, None),
          NoLocals)

\* "Error file ID: "
ErrorFileIdPrefix ==
    <<"E", "r", "r", "o", "r", " ", "f", "i", "l", "e", " ", "I", "D", ":", " ">>

\* checkBatch from the response to its return
checkBatch_fetched(batchId, response) ==
    IF ~response.ok
    THEN Throw([Err("CheckBatchFailed") EXCEPT !.payload = response.error])
    ELSE LET statusData == response.json
         IN  Return([id |-> batchId,
                     status |-> mapOpenAIBatchStatus(statusData.status),
                     outputFileId |-> statusData.output_file_id,
                     error |-> IF truthyStr(statusData.error_file_id)
                               THEN Some(ErrorFileIdPrefix
                                         \o Get(statusData.error_file_id))
                               ELSE None])

\* cancelBatch up to its fetch
OpenAI_cancelBatch(this, batchId) ==
    Await("cancelBatch_cancel",
          OpenAI_fetch(this, "POST", "batches", Some(actualBatchId(batchId)),
                       Some("cancel"), None),
          NoLocals)

\* a cancelBatch that reports a refused cancellation as false
cancelBatch_fetched_quiet(response) ==
    IF ~response.ok THEN Return(FALSE) ELSE Return(TRUE)

\* cancelBatch from the response to its return
cancelBatch_fetched(response) ==
    IF ~response.ok
    THEN Throw([Err("CancelBatchFailed") EXCEPT !.payload = response.error])
    ELSE Return(TRUE)

(***************************************************************************)
(* OpenAIProvider.retrieveBatch.  The output document is its lines; a line *)
(* is blank, not JSON ("garbage"), the JSON null, or a JSON object with a  *)
(* custom_id, an optional error and an optional response, whose body may   *)
(* be missing.                                                             *)
(***************************************************************************)
\* JSON.parse of a completion text: the value, or None where it throws
JSON_parse(text) ==
    CASE text = "{\"answer\":\"Paris\"}" ->
             Some(ObjV(<< <<<<"a", "n", "s", "w", "e", "r">>, StrV("Paris")>> >>))
      [] text = "42" -> Some(NumV(42))
      [] OTHER -> None

\* OpenAIProvider.parseJsonResponse, GoogleProvider.parseJsonResponse:
\* the value, or None where it throws
parseJsonResponse(text) == JSON_parse(text)

\* jsonlContent.trim().split('\n')
RECURSIVE dropLeadingBlank(_)
dropLeadingBlank(lines) ==
    IF Len(lines) > 0 /\ lines[1].kind = "blank"
    THEN dropLeadingBlank(Tail(lines)) ELSE lines

RECURSIVE dropTrailingBlank(_)
dropTrailingBlank(lines) ==
    IF Len(lines) > 0 /\ lines[Len(lines)].kind = "blank"
    THEN dropTrailingBlank(SubSeq(lines, 1, Len(lines) - 1)) ELSE lines

trimSplit(jsonlContent) ==
    LET trimmed == dropTrailingBlank(dropLeadingBlank(jsonlContent))
    IN  IF Len(trimmed) = 0 THEN <<[kind |-> "blank"]>> ELSE trimmed

\* Number.parseInt of a character sequence: None is NaN
RECURSIVE digitsValue(_)
digitsValue(s) ==
    IF Len(s) = 0 THEN 0
    ELSE digitsValue(SubSeq(s, 1, Len(s) - 1)) * 10
         + (CHOOSE d \in 0..9 : DigitChars[d + 1] = s[Len(s)])

parseInt(s) ==
    LET n == IF \E i \in DOMAIN s : s[i] \notin Range(DigitChars)
             THEN (CHOOSE i \in DOMAIN s : s[i] \notin Range(DigitChars)
                       /\ \A j \in 1..(i - 1) : s[j] \in Range(DigitChars)) - 1
             ELSE Len(s)
    IN  IF n = 0 THEN None ELSE Some(digitsValue(SubSeq(s, 1, n)))

\* requestIndex of retrieveBatch: computed from the custom_id, then dropped
retrieveBatch_requestIndex(custom_id) ==
    LET requestIdParts == split(custom_id, "_")
    IN  IF Len(requestIdParts) > 1 THEN parseInt(requestIdParts[2]) ELSE Some(-1)

\* `${Provider.OpenAI}/${model}`
modelType(provider, model) == <<provider, model>>

\* what one pass of the for loop does with a line: "skip" (continue),
\* "throw" (a TypeError leaves the loop), or "push" with the pushed result
retrieveBatch_line(rawResponse, model, sampleObj) ==
    IF rawResponse.kind \in {"blank", "garbage"}
    THEN [do |-> "skip"]
    ELSE IF rawResponse.kind = "null"
    THEN [do |-> "throw"]
    ELSE IF rawResponse.error # None \/ rawResponse.response = None
    THEN [do |-> "skip"]
    ELSE IF Get(rawResponse.response).body = None
    THEN [do |-> "throw"]
    ELSE LET body == Get(Get(rawResponse.response).body)
             responseText == body.text
             parses == truthy(sampleObj) /\ typeof(sampleObj) = "object"
             parsed == parseJsonResponse(responseText)
         IN  IF parses /\ parsed = None
             THEN [do |-> "skip"]
             ELSE [do |-> "push",
                   result |->
                     [text |-> responseText,
                      data |-> IF parses THEN Get(parsed) ELSE StrV(responseText),
                      usage |-> [promptTokens |-> body.usage.prompt_tokens,
                                 completionTokens |-> body.usage.completion_tokens,
                                 totalTokens |-> body.usage.total_tokens],
                      model |-> modelType(Provider.OpenAI, model),
                      provider |-> Provider.OpenAI]]

\* the for loop over rawResponses
RECURSIVE retrieveBatch_loop(_, _, _, _)
retrieveBatch_loop(rawResponses, model, sampleObj, responses) ==
    IF Len(rawResponses) = 0 THEN Return(responses)
    ELSE LET step == retrieveBatch_line(rawResponses[1], model, sampleObj)
         IN  IF step.do = "throw" THEN Throw(Err("TypeError"))
             ELSE retrieveBatch_loop(Tail(rawResponses), model, sampleObj,
                      IF step.do = "push" THEN Append(responses, step.result)
                      ELSE responses)

\* retrieveBatch up to the fetch of the checkBatch it calls
OpenAI_retrieveBatch(this, batchId) ==
    OpenAI_checkBatch(this, batchId, "retrieveBatch_check")

\* a retrieveBatch that goes by the output file alone and downloads it
\* whatever the status is
retrieveBatch_checked_anyStatus(this, batchId, response) ==
    LET checked == checkBatch_fetched(batchId, response)
        status == checked.outcome.value
    IN  IF checked.outcome.kind = "error" THEN checked
        ELSE IF ~truthyStr(status.outputFileId)
        THEN Throw(Err("NoOutputFile"))
        ELSE Await("retrieveBatch_content",
                   OpenAI_fetch(this, "GET", "files", status.outputFileId,
                                Some("content"), None),
                   NoLocals)

\* retrieveBatch from checkBatch's response to the download request
retrieveBatch_checked(this, batchId, response) ==
    LET checked == checkBatch_fetched(batchId, response)
        status == checked.outcome.value
    IN  IF checked.outcome.kind = "error" THEN checked
        ELSE IF status.status # "completed"
        THEN Throw([Err("NotCompleted") EXCEPT !.id = batchId,
                                               !.status = status.status])
        ELSE IF ~truthyStr(status.outputFileId)
        THEN Throw(Err("NoOutputFile"))
        ELSE Await("retrieveBatch_content",
                   OpenAI_fetch(this, "GET", "files", status.outputFileId,
                                Some("content"), None),
                   NoLocals)

\* retrieveBatch from the download's response to its return
retrieveBatch_downloaded(model, sampleObj, response) ==
    IF ~response.ok
    THEN Throw([Err("RetrieveBatchFailed") EXCEPT !.payload = response.error])
    ELSE retrieveBatch_loop(trimSplit(response.text), model, sampleObj, <<>>)

(***************************************************************************)
(* OpenAIProvider.prompt                                                   *)
(***************************************************************************)
\* a request body that carries the instruction in the messages even when
\* the model enforces JSON natively
OpenAI_prompt_requestBody_injecting(modelInfo, messages, options) ==
    LET structured == needsStructuredOutput(options.sampleObj)
        requestBody == [model |-> modelInfo.id,
                        messages |-> OpenAI_formatMessages(messages),
                        temperature |-> "0.7",
                        user |-> userOrAgentName(options),
                        response_format |-> None]
    IN  IF structured
        THEN [requestBody EXCEPT
                 !.response_format =
                     IF modelInfo.capabilities.structuredOutput
                     THEN Some("json_object") ELSE None,
                 !.messages = OpenAI_formatMessages(
                     enhancePromptWithStructure(messages, options.sampleObj))]
        ELSE requestBody

\* the request body prompt builds for the model found
OpenAI_prompt_requestBody(modelInfo, messages, options) ==
    LET structured == needsStructuredOutput(options.sampleObj)
        requestBody == [model |-> modelInfo.id,
                        messages |-> OpenAI_formatMessages(messages),
                        temperature |-> "0.7",
                        user |-> userOrAgentName(options),
                        response_format |-> None]
    IN  IF structured /\ modelInfo.capabilities.structuredOutput
        THEN [requestBody EXCEPT !.response_format = Some("json_object")]
        ELSE IF structured /\ ~modelInfo.capabilities.structuredOutput
        THEN [requestBody EXCEPT !.messages = OpenAI_formatMessages(
                 enhancePromptWithStructure(messages, options.sampleObj))]
        ELSE requestBody

\* prompt up to its fetch
OpenAI_prompt(this, messages, model, options) ==
    LET found == findModel(OpenAI_getModels, model)
        modelInfo == Get(found)
        structured == needsStructuredOutput(options.sampleObj)
    IN  IF found = None
        THEN Throw([Err("ModelNotFound") EXCEPT !.model = model])
        ELSE IF structured /\ ~someMessageIncludesJson(messages)
        THEN Throw(Err("MissingJson"))
        ELSE Await("prompt_completion",
                   OpenAI_fetch(this, "POST", "chat/completions", None, None,
                                Some(OpenAI_prompt_requestBody(modelInfo, messages,
                                                               options))),
                   NoLocals)

\* the decoding of a completion text, the same in both adapters' prompt
prompt_data(structured, text) ==
    IF structured
    THEN IF parseJsonResponse(text) # None THEN Get(parseJsonResponse(text))
         ELSE StrV(text)
    ELSE StrV(text)

\* a prompt that lets the failure of parseJsonResponse escape
OpenAI_prompt_completed_strict(model, options, response) ==
    IF ~response.ok
    THEN Throw([Err("OpenAIApiError") EXCEPT !.payload = response.error])
    ELSE LET responseData == response.json
             text == responseData.text
             structured == needsStructuredOutput(options.sampleObj)
         IN  IF structured /\ parseJsonResponse(text) = None
             THEN Throw(Err("ParseError"))
             ELSE Return([text |-> text,
                          data |-> prompt_data(structured, text),
                          usage |-> [promptTokens |-> responseData.usage.prompt_tokens,
                                     completionTokens |-> responseData.usage.completion_tokens,
                                     totalTokens |-> responseData.usage.total_tokens],
                          model |-> modelType(Provider.OpenAI, model),
                          provider |-> Provider.OpenAI])

\* prompt from the response to its return
OpenAI_prompt_completed(model, options, response) ==
    IF ~response.ok
    THEN Throw([Err("OpenAIApiError") EXCEPT !.payload = response.error])
    ELSE LET responseData == response.json
             text == responseData.text
         IN  Return([text |-> text,
                     data |-> prompt_data(needsStructuredOutput(options.sampleObj), text),
                     usage |-> [promptTokens |-> responseData.usage.prompt_tokens,
                                completionTokens |-> responseData.usage.completion_tokens,
                                totalTokens |-> responseData.usage.total_tokens],
                     model |-> modelType(Provider.OpenAI, model),
                     provider |-> Provider.OpenAI])

(***************************************************************************)
(* GoogleProvider                                                          *)
(***************************************************************************)
\* GoogleProvider.formatMessages
Google_formatMessages(messages) ==
    [i \in DOMAIN messages.msgs |->
        [role |-> IF messages.msgs[i].role = "assistant" THEN "model" ELSE "user",
         parts |-> <<[text |-> messages.msgs[i].content]>>]]

\* GoogleProvider.getGoogleSchemaType
getGoogleSchemaType(jsType) ==
    CASE jsType = "string" -> "STRING"
      [] jsType = "number" -> "NUMBER"
      [] jsType = "boolean" -> "BOOLEAN"
      [] OTHER -> "STRING"

\* GoogleProvider.objectToGoogleSchema
RECURSIVE objectToGoogleSchema(_)
objectToGoogleSchema(sampleObj) ==
    IF sampleObj.t \in {"null", "undefined"} THEN NullV
    ELSE IF typeof(sampleObj) # "object"
    THEN [type |-> getGoogleSchemaType(typeof(sampleObj))]
    ELSE IF sampleObj.t = "array"
    THEN IF Len(sampleObj.a) = 0
         THEN [type |-> "ARRAY", items |-> [type |-> "STRING"]]
         ELSE [type |-> "ARRAY", items |-> objectToGoogleSchema(sampleObj.a[1])]
    ELSE [type |-> "OBJECT",
          properties |-> [i \in DOMAIN sampleObj.o |->
              <<sampleObj.o[i][1], objectToGoogleSchema(sampleObj.o[i][2])>>]]

\* baseUrl.replace(/\/v1$/, '/v1beta'), on the segments of the URL
replaceV1(baseUrl) ==
    IF Len(baseUrl) > 1 /\ baseUrl[Len(baseUrl)] = "v1"
    THEN [baseUrl EXCEPT ![Len(baseUrl)] = "v1beta"]
    ELSE baseUrl

\* the request body prompt builds for the model found
Google_prompt_requestBody(modelInfo, messages, options) ==
    LET structured == needsStructuredOutput(options.sampleObj)
        native == structured /\ modelInfo.capabilities.structuredOutput
        injected == structured /\ ~modelInfo.capabilities.structuredOutput
    IN  [contents |-> Google_formatMessages(
             IF injected
             THEN enhancePromptWithStructure(messages, options.sampleObj)
             ELSE messages),
         generationConfig |->
             [temperature |-> "0.7",
              response_mime_type |-> IF structured
                                     THEN Some("application/json") ELSE None,
              response_schema |-> IF native
                                  THEN Some(objectToGoogleSchema(options.sampleObj))
                                  ELSE None]]

\* prompt up to its fetch
Google_prompt(this, messages, model, options) ==
    LET found == findModel(Google_getModels, model)
        modelInfo == Get(found)
        structured == needsStructuredOutput(options.sampleObj)
        requestBody == Google_prompt_requestBody(modelInfo, messages, options)
    IN  IF found = None
        THEN Throw([Err("ModelNotFound") EXCEPT !.model = model])
        ELSE Await("prompt_completion",
                   [method |-> "POST",
                    baseUrl |-> IF structured THEN replaceV1(this.baseUrl)
                                ELSE this.baseUrl,
                    resource |-> "models", id |-> Some(modelInfo.id),
                    suffix |-> Some(":generateContent"), key |-> this.apiKey,
                    body |-> Some(requestBody)],
                   NoLocals)

\* a prompt whose error leaves the backend's payload out
Google_prompt_completed_bare(model, options, response) ==
    IF ~response.ok
    THEN Throw(Err("GoogleApiError"))
    ELSE LET responseData == response.json
             text == responseData.text
         IN  Return([text |-> text,
                     data |-> prompt_data(needsStructuredOutput(options.sampleObj), text),
                     usage |-> [promptTokens |-> responseData.usageMetadata.promptTokenCount,
                                completionTokens |-> responseData.usageMetadata.candidatesTokenCount,
                                totalTokens |-> responseData.usageMetadata.totalTokenCount],
                     model |-> modelType(Provider.Google, model),
                     provider |-> Provider.Google])

\* prompt from the response to its return
Google_prompt_completed(model, options, response) ==
    IF ~response.ok
    THEN Throw([Err("GoogleApiError") EXCEPT !.payload = response.error])
    ELSE LET responseData == response.json
             text == responseData.text
         IN  Return([text |-> text,
                     data |-> prompt_data(needsStructuredOutput(options.sampleObj), text),
                     usage |-> [promptTokens |-> responseData.usageMetadata.promptTokenCount,
                                completionTokens |-> responseData.usageMetadata.candidatesTokenCount,
                                totalTokens |-> responseData.usageMetadata.totalTokenCount],
                     model |-> modelType(Provider.Google, model),
                     provider |-> Provider.Google])

\* GoogleProvider.createBatch
Google_createBatch(model) ==
    IF findModel(Google_getModels, model) = None
    THEN Throw([Err("ModelNotFound") EXCEPT !.model = model])
    ELSE Throw([Err("BatchRequestsNotSupported") EXCEPT !.model = model])

\* GoogleProvider.checkBatch
Google_checkBatch(model) ==
    IF findModel(Google_getModels, model) = None
    THEN Throw([Err("ModelNotFound") EXCEPT !.model = model])
    ELSE Throw([Err("BatchOperationsNotSupported") EXCEPT !.model = model])

\* GoogleProvider.retrieveBatch
Google_retrieveBatch(model) ==
    IF findModel(Google_getModels, model) = None
    THEN Throw([Err("ModelNotFound") EXCEPT !.model = model])
    ELSE Throw([Err("BatchOperationsNotSupported") EXCEPT !.model = model])

\* a cancelBatch whose message leaves the model out
Google_cancelBatch_unnamed(model) ==
    IF findModel(Google_getModels, model) = None
    THEN Throw([Err("ModelNotFound") EXCEPT !.model = model])
    ELSE Throw(Err("BatchOperationsNotSupported"))

\* GoogleProvider.cancelBatch
Google_cancelBatch(model) ==
    IF findModel(Google_getModels, model) = None
    THEN Throw([Err("ModelNotFound") EXCEPT !.model = model])
    ELSE Throw([Err("BatchOperationsNotSupported") EXCEPT !.model = model])

(***************************************************************************)
(* The inputs of the calls and the answers of the backends.                *)
(***************************************************************************)
Hi == <<"h", "i">>
Json == <<"J", "s", "o", "n">>
message(role, chars) == [role |-> role, content |-> Text(chars)]

SampleObject ==
    ObjV(<< <<<<"a", "n", "s", "w", "e", "r">>, StrV(<<>>)>>,
            <<<<"c", "o", "n", "f", "i", "d", "e", "n", "c", "e">>, NumV(0)>> >>)
SampleObjs == {Undefined, StrV(<<"s">>), NumV(0), NumV(1), SampleObject}

AgentNames == {None, Some(<<"A", "g", "-", "1">>)}
BatchNames == {None, Some(<<"C", "a", "p", "s">>)}
Timeouts == {None, Some(0), Some(-1), Some(3601), Some(90000)}

\* what Date.now() may return.  Only the decimal print of a reading is
\* used; the readings are small because TLC's integers have 32 bits.
Times == {99, 100}
Clocks(n) == {nows \in [1..n -> Times] :
                 \A i, j \in 1..n : i <= j => nows[i] <= nows[j]}

PromptMessageLists ==
    {MsgList(<<message("user", Hi)>>),
     MsgList(<<message("user", Json)>>),
     MsgList(<<message("developer", Json), message("user", Hi),
               message("assistant", Hi)>>),
     MsgList(<<message("assistant", Hi)>>),
     MsgList(<<>>)}

PlainMessages == MsgList(<<message("user", Hi)>>)
ItemIds == {None, Some(<<"a">>), Some(<<"a", "-">>), Some(<<"-">>)}
BatchMessageLists ==
    {None,
     Some(MsgList(<<>>)),
     Some(PlainMessages),
     Some(MsgList(<<message("user", Json)>>)),
     Some([msgs |-> <<>>, more |-> MAX_MESSAGES + 1]),
     Some(MsgList(<<[role |-> "user",
                     content |-> [chars |-> Hi, pad |-> HugePad]]>>))}
Items ==
    {[id |-> id, messages |-> Some(PlainMessages)] : id \in ItemIds}
    \cup {[id |-> None, messages |-> m] : m \in BatchMessageLists}
Prompts ==
    {[items |-> items, more |-> 0] :
        items \in UNION {[1..n -> Items] : n \in 0..MaxItems}}
    \cup {[items |-> <<>>, more |-> MAX_BATCH_REQUESTS + 1]}

BatchOptions ==
    [sampleObj : {Undefined, StrV(<<"s">>), SampleObject},
     batchName : BatchNames, agentName : AgentNames, user : {None},
     timeoutSeconds : Timeouts]
PromptOptions ==
    [sampleObj : SampleObjs, agentName : AgentNames, user : {None}]

BatchIds == {<<"b", "7">>, <<"b", "_", "7", "_", "x">>}
FileIds == {<<"f", "1">>}
BackendStatuses ==
    {"validating", "in_progress", "finalizing", "processing", "completed",
     "failed", "cancelled", "cancelling", "expired"}
CompletionTexts == {"Paris", "{\"answer\":\"Paris\"}"}
Usage == [prompt_tokens |-> 3, completion_tokens |-> 5, total_tokens |-> 8]
UsageMetadata == [promptTokenCount |-> 3, candidatesTokenCount |-> 5,
                  totalTokenCount |-> 8]

Failure(payload) == [ok |-> FALSE, error |-> payload]
Success(json) == [ok |-> TRUE, json |-> json]

\* the lines an output document is made of
Line(kind, custom_id, error, response) ==
    [kind |-> kind, custom_id |-> custom_id, error |-> error,
     response |-> response]
CustomIds == {<<"a">>, <<"A", "g", "_", "9", "9", "_", "0">>}
OutputLines ==
    {Line("blank", <<>>, None, None),
     Line("garbage", <<>>, None, None),
     Line("null", <<>>, None, None),
     Line("object", <<"a">>, Some("rate_limited"), None),
     Line("object", <<"a">>, None, None),
     Line("object", <<"a">>, None, Some([body |-> None]))}
    \cup {Line("object", id, None,
               Some([body |-> Some([text |-> text, usage |-> Usage])])) :
             id \in CustomIds, text \in CompletionTexts}
OutputDocuments == UNION {[1..n -> OutputLines] : n \in 0..MaxLines}

(***************************************************************************)
(* The state machine.                                                      *)
(***************************************************************************)
NoCall == [op |-> "none"]

Init ==
    /\ pc = "idle"
    /\ call = NoCall
    /\ locals = NoLocals
    /\ net = <<>>
    /\ replies = <<>>
    /\ outcome = NoOutcome
    /\ jobId = None
    /\ config = [openai |-> OpenAI_constructor(ApiKey),
                 google |-> Google_constructor(ApiKey)]

\* the handler runs to its next await, or to its end
Apply(step) ==
    /\ pc' = step.pc
    /\ outcome' = step.outcome
    /\ locals' = step.locals
    /\ net' = IF step.fetch = None THEN net ELSE Append(net, Get(step.fetch))

\* the caller makes call c, whose handler runs `step` before it first
\* suspends; a caller that goes on to anything but following up its job
\* lets go of the id it holds
Begin(c, step) ==
    /\ call' = c
    /\ Apply(step)
    /\ replies' = <<>>
    /\ jobId' = IF c.op \in {"checkBatch", "retrieveBatch", "cancelBatch"}
                THEN jobId ELSE None
    /\ UNCHANGED config

\* fetchFn resolves to `response` and the suspended handler goes on
Resume(response, step) ==
    /\ Apply(step)
    /\ replies' = Append(replies, response)
    /\ UNCHANGED <<call, jobId, config>>

\* the ids a caller follows up on: the one createBatch gave it, if it holds
\* one, and any id otherwise
FollowUpIds == IF jobId # None THEN jobId ELSE BatchIds

GooglePrompt ==
    /\ pc = "idle"
    /\ \E messages \in PromptMessageLists, model \in ModelNames,
          options \in PromptOptions :
         Begin([provider |-> Provider.Google, op |-> "prompt",
                messages |-> messages, model |-> model, options |-> options],
               Google_prompt(config.google, messages, model, options))

GooglePromptFailed ==
    /\ pc = "prompt_completion"
    /\ call.provider = Provider.Google
    /\ \E payload \in ErrorPayloads :
         LET response == Failure(payload)
         IN  Resume(response,
                    Google_prompt_completed(call.model, call.options, response))

GooglePromptCompleted ==
    /\ pc = "prompt_completion"
    /\ call.provider = Provider.Google
    /\ \E text \in CompletionTexts :
         LET response == Success([text |-> text, usageMetadata |-> UsageMetadata])
         IN  Resume(response,
                    Google_prompt_completed(call.model, call.options, response))

GoogleCreateBatch ==
    /\ pc = "idle"
    /\ \E model \in ModelNames :
         Begin([provider |-> Provider.Google, op |-> "createBatch",
                model |-> model],
               Google_createBatch(model))

GoogleCheckBatch ==
    /\ pc = "idle"
    /\ \E model \in ModelNames :
         Begin([provider |-> Provider.Google, op |-> "checkBatch",
                model |-> model],
               Google_checkBatch(model))

GoogleRetrieveBatch ==
    /\ pc = "idle"
    /\ \E model \in ModelNames :
         Begin([provider |-> Provider.Google, op |-> "retrieveBatch",
                model |-> model],
               Google_retrieveBatch(model))

GoogleCancelBatch ==
    /\ pc = "idle"
    /\ \E model \in ModelNames :
         Begin([provider |-> Provider.Google, op |-> "cancelBatch",
                model |-> model],
               Google_cancelBatch(model))

OpenAIPrompt ==
    /\ pc = "idle"
    /\ \E messages \in PromptMessageLists, model \in ModelNames,
          options \in PromptOptions :
         Begin([provider |-> Provider.OpenAI, op |-> "prompt",
                messages |-> messages, model |-> model, options |-> options],
               OpenAI_prompt(config.openai, messages, model, options))

OpenAIPromptFailed ==
    /\ pc = "prompt_completion"
    /\ call.provider = Provider.OpenAI
    /\ \E payload \in ErrorPayloads :
         LET response == Failure(payload)
         IN  Resume(response,
                    OpenAI_prompt_completed(call.model, call.options, response))

OpenAIPromptCompleted ==
    /\ pc = "prompt_completion"
    /\ call.provider = Provider.OpenAI
    /\ \E text \in CompletionTexts :
         LET response == Success([text |-> text, usage |-> Usage])
         IN  Resume(response,
                    OpenAI_prompt_completed(call.model, call.options, response))

OpenAICreateBatch ==
    /\ pc = "idle"
    /\ \E prompts \in Prompts, model \in ModelNames, options \in BatchOptions :
         \E nows \in Clocks(Len(prompts.items)) :
            Begin([provider |-> Provider.OpenAI, op |-> "createBatch",
                   prompts |-> prompts, model |-> model, options |-> options],
                  OpenAI_createBatch(config.openai, prompts, model, options, nows))

OpenAIUploadFailed ==
    /\ pc = "createBatch_upload"
    /\ \E payload \in ErrorPayloads :
         LET response == Failure(payload)
         IN  Resume(response,
                    createBatch_uploaded(config.openai, locals, call.options,
                                         response))

OpenAIUploaded ==
    /\ pc = "createBatch_upload"
    /\ \E id \in FileIds :
         LET response == Success([id |-> id])
         IN  Resume(response,
                    createBatch_uploaded(config.openai, locals, call.options,
                                         response))

OpenAICreateFailed ==
    /\ pc = "createBatch_create"
    /\ \E payload \in ErrorPayloads :
         LET response == Failure(payload)
         IN  Resume(response, createBatch_created(locals, response))

\* createBatch returns and the caller holds the job's id
OpenAICreated ==
    /\ pc = "createBatch_create"
    /\ \E id \in BatchIds :
         LET response == Success([id |-> id])
             step == createBatch_created(locals, response)
         IN  /\ Apply(step)
             /\ replies' = Append(replies, response)
             /\ jobId' = Some(step.outcome.value.batchId)
    /\ UNCHANGED <<call, config>>

OpenAICheckBatch ==
    /\ pc = "idle"
    /\ \E batchId \in FollowUpIds :
         Begin([provider |-> Provider.OpenAI, op |-> "checkBatch",
                batchId |-> batchId],
               OpenAI_checkBatch(config.openai, batchId, "checkBatch_check"))

\* what the backend may answer to GET batches/{id}
StatusResponses ==
    [status : BackendStatuses, output_file_id : Opt(FileIds),
     error_file_id : Opt(FileIds)]

OpenAICheckFailed ==
    /\ pc = "checkBatch_check"
    /\ \E payload \in ErrorPayloads :
         LET response == Failure(payload)
         IN  Resume(response, checkBatch_fetched(call.batchId, response))

OpenAIChecked ==
    /\ pc = "checkBatch_check"
    /\ \E statusData \in StatusResponses :
         LET response == Success(statusData)
         IN  Resume(response, checkBatch_fetched(call.batchId, response))

OpenAIRetrieveBatch ==
    /\ pc = "idle"
    /\ \E batchId \in FollowUpIds, model \in ModelNames,
          sampleObj \in SampleObjs :
         Begin([provider |-> Provider.OpenAI, op |-> "retrieveBatch",
                batchId |-> batchId, model |-> model, sampleObj |-> sampleObj],
               OpenAI_retrieveBatch(config.openai, batchId))

OpenAIRetrieveCheckFailed ==
    /\ pc = "retrieveBatch_check"
    /\ \E payload \in ErrorPayloads :
         LET response == Failure(payload)
         IN  Resume(response,
                    retrieveBatch_checked(config.openai, call.batchId, response))

OpenAIRetrieveChecked ==
    /\ pc = "retrieveBatch_check"
    /\ \E statusData \in StatusResponses :
         LET response == Success(statusData)
         IN  Resume(response,
                    retrieveBatch_checked(config.openai, call.batchId, response))

OpenAIDownloadFailed ==
    /\ pc = "retrieveBatch_content"
    /\ \E payload \in ErrorPayloads :
         LET response == Failure(payload)
         IN  Resume(response,
                    retrieveBatch_downloaded(call.model, call.sampleObj, response))

OpenAIDownloaded ==
    /\ pc = "retrieveBatch_content"
    /\ \E document \in OutputDocuments :
         LET response == [ok |-> TRUE, text |-> document]
         IN  Resume(response,
                    retrieveBatch_downloaded(call.model, call.sampleObj, response))

OpenAICancelBatch ==
    /\ pc = "idle"
    /\ \E batchId \in FollowUpIds :
         Begin([provider |-> Provider.OpenAI, op |-> "cancelBatch",
                batchId |-> batchId],
               OpenAI_cancelBatch(config.openai, batchId))

OpenAICancelFailed ==
    /\ pc = "cancelBatch_cancel"
    /\ \E payload \in ErrorPayloads :
         LET response == Failure(payload)
         IN  Resume(response, cancelBatch_fetched(response))

OpenAICancelled ==
    /\ pc = "cancelBatch_cancel"
    /\ LET response == Success(<<>>)
       IN  Resume(response, cancelBatch_fetched(response))

\* the caller has the call's result and is free to make the next call
Finish ==
    /\ pc = "done"
    /\ pc' = "idle"
    /\ call' = NoCall
    /\ locals' = NoLocals
    /\ net' = <<>>
    /\ replies' = <<>>
    /\ outcome' = NoOutcome
    /\ UNCHANGED <<jobId, config>>

Next ==
    \/ GooglePrompt \/ GooglePromptFailed \/ GooglePromptCompleted
    \/ GoogleCreateBatch \/ GoogleCheckBatch
    \/ GoogleRetrieveBatch \/ GoogleCancelBatch
    \/ OpenAIPrompt \/ OpenAIPromptFailed \/ OpenAIPromptCompleted
    \/ OpenAICreateBatch \/ OpenAIUploadFailed \/ OpenAIUploaded
    \/ OpenAICreateFailed \/ OpenAICreated
    \/ OpenAICheckBatch \/ OpenAICheckFailed \/ OpenAIChecked
    \/ OpenAIRetrieveBatch \/ OpenAIRetrieveCheckFailed \/ OpenAIRetrieveChecked
    \/ OpenAIDownloadFailed \/ OpenAIDownloaded
    \/ OpenAICancelBatch \/ OpenAICancelFailed \/ OpenAICancelled
    \/ Finish

Spec == Init /\ [][Next]_vars

(***************************************************************************)
(* The request builders and enhancePromptWithStructure as functions of     *)
(* their inputs.  The descriptors are those of getModels and, for the      *)
(* branch the code keeps for models without native structured output, the  *)
(* same descriptors with that capability off.                              *)
(***************************************************************************)
WithoutStructuredOutput(modelInfo) ==
    [modelInfo EXCEPT !.capabilities.structuredOutput = FALSE]
Descriptors(models) ==
    {models[i] : i \in DOMAIN models}
    \cup {WithoutStructuredOutput(models[i]) : i \in DOMAIN models}

EnhanceMessageLists ==
    PromptMessageLists
    \cup {MsgList(<<message("user", Json), message("user", Hi)>>),
          MsgList(<<message("user", Hi), message("assistant", Hi),
                    message("user", Json), message("developer", Hi)>>)}
StructuredExamples ==
    {NumV(1), BoolV(TRUE), SampleObject, ObjV(<<>>),
     ArrV(<<StrV(<<"x">>)>>),
     ObjV(<< <<<<"t", "a", "g", "s">>, ArrV(<<ObjV(<<>>)>>)>> >>)}
BuildOptions ==
    [sampleObj : StructuredExamples \cup {Undefined, StrV(<<"s">>)},
     agentName : {None}, user : {None}]

SchemaExamples ==
    StructuredExamples
    \cup {StrV(<<"s">>), NumV(0), BoolV(FALSE), NullV, ArrV(<<>>),
          ArrV(<<NumV(1), StrV(<<"x">>)>>), ArrV(<<NullV>>),
          ArrV(<<ArrV(<<>>)>>),
          ObjV(<< <<<<"n", "o", "t", "e">>, NullV>>,
                  <<<<"o", "k">>, BoolV(TRUE)>> >>),
          ObjV(<< <<<<"i", "n">>, ObjV(<< <<<<"x">>, NumV(1)>> >>)>>,
                  <<<<"l">>, ArrV(<<>>)>> >>)}

BuildInit ==
    /\ pc = "idle"
    /\ net = <<>>
    /\ replies = <<>>
    /\ outcome = NoOutcome
    /\ jobId = None
    /\ config = [openai |-> OpenAI_constructor(ApiKey),
                 google |-> Google_constructor(ApiKey)]
    /\ \/ /\ call \in [op : {"requestBody"}, provider : {Provider.OpenAI},
                        modelInfo : Descriptors(OpenAI_getModels),
                        messages : EnhanceMessageLists, options : BuildOptions]
          /\ locals = NoLocals
       \/ /\ call \in [op : {"requestBody"}, provider : {Provider.Google},
                        modelInfo : Descriptors(Google_getModels),
                        messages : EnhanceMessageLists, options : BuildOptions]
          /\ locals = NoLocals
       \/ /\ call \in [op : {"enhancePromptWithStructure"},
                        messages : EnhanceMessageLists,
                        sampleObj : StructuredExamples]
          \* the array the caller passes
          /\ locals = [messages |-> call.messages]
       \/ /\ call \in [op : {"objectToGoogleSchema"}, sampleObj : SchemaExamples]
          /\ locals = NoLocals

OpenAIBuildRequest ==
    /\ pc = "idle"
    /\ call.op = "requestBody" /\ call.provider = Provider.OpenAI
    /\ pc' = "done"
    /\ outcome' = Returned(OpenAI_prompt_requestBody(call.modelInfo,
                                call.messages, call.options))
    /\ UNCHANGED <<call, locals, net, replies, jobId, config>>

GoogleBuildRequest ==
    /\ pc = "idle"
    /\ call.op = "requestBody" /\ call.provider = Provider.Google
    /\ pc' = "done"
    /\ outcome' = Returned(Google_prompt_requestBody(call.modelInfo,
                                call.messages, call.options))
    /\ UNCHANGED <<call, locals, net, replies, jobId, config>>

EnhancePrompt ==
    /\ pc = "idle"
    /\ call.op = "enhancePromptWithStructure"
    /\ LET heap == enhancePromptWithStructure_heap(locals.messages, call.sampleObj)
       IN  /\ locals' = [messages |-> heap.messages]
           /\ outcome' = Returned(heap.enhancedMessages)
    /\ pc' = "done"
    /\ UNCHANGED <<call, net, replies, jobId, config>>

InferSchema ==
    /\ pc = "idle"
    /\ call.op = "objectToGoogleSchema"
    /\ pc' = "done"
    /\ outcome' = Returned(objectToGoogleSchema(call.sampleObj))
    /\ UNCHANGED <<call, locals, net, replies, jobId, config>>

BuildNext ==
    OpenAIBuildRequest \/ GoogleBuildRequest \/ EnhancePrompt \/ InferSchema

BuildSpec == BuildInit /\ [][BuildNext]_vars

(***************************************************************************)
(* agents.ts: LLMAgent.  A model key is a sequence of runs of characters:  *)
(* "/" is a run of its own and every other run is a whole provider or      *)
(* model name, so that split('/') cuts a key where the code cuts it.       *)
(***************************************************************************)
\* parts[k] as the string it is: undefined prints and compares as the
\* string "undefined" everywhere the agent and the adapters use it
segment(parts, k) ==
    IF Len(parts) < k THEN "undefined"
    ELSE IF parts[k] = <<>> THEN ""
    ELSE parts[k][1]

\* a constructor that folds the case of the provider segment and binds
\* every key it does not recognise to the OpenAI adapter
LLMAgent_constructor_lenient(options) ==
    LET parts == split(options.model, "/")
        providerStr == segment(parts, 1)
        this == [name |-> options.name, basePrompt |-> options.basePrompt,
                 model |-> options.model, apiKey |-> options.apiKey,
                 provider |-> providerStr, modelName |-> segment(parts, 2),
                 sampleObj |-> IF truthy(options.sampleObj)
                               THEN options.sampleObj ELSE Undefined]
    IN  IF providerStr \in {Provider.Google, "Google"}
        THEN Return([agent |-> this,
                     providerInstance |->
                         [class |-> "GoogleProvider",
                          this |-> Google_constructor(options.apiKey)]])
        ELSE Return([agent |-> this,
                     providerInstance |->
                         [class |-> "OpenAIProvider",
                          this |-> OpenAI_constructor(options.apiKey)]])

\* new LLMAgent(options), with the default baseUrl and fetchFn: the agent's
\* own fields and the adapter it holds
LLMAgent_constructor(options) ==
    LET parts == split(options.model, "/")
        providerStr == segment(parts, 1)
        this == [name |-> options.name, basePrompt |-> options.basePrompt,
                 model |-> options.model, apiKey |-> options.apiKey,
                 provider |-> providerStr, modelName |-> segment(parts, 2),
                 sampleObj |-> IF truthy(options.sampleObj)
                               THEN options.sampleObj ELSE Undefined]
    IN  IF providerStr = Provider.Google
        THEN Return([agent |-> this,
                     providerInstance |->
                         [class |-> "GoogleProvider",
                          this |-> Google_constructor(options.apiKey)]])
        ELSE IF providerStr = Provider.OpenAI
        THEN Return([agent |-> this,
                     providerInstance |->
                         [class |-> "OpenAIProvider",
                          this |-> OpenAI_constructor(options.apiKey)]])
        ELSE Throw([Err("UnsupportedProvider") EXCEPT !.provider = providerStr])

\* createAgent
createAgent(options) == LLMAgent_constructor(options)

\* a prepend that keeps the developer messages it is given
prependBasePrompt_keepDeveloper(this, messages) ==
    IF this.basePrompt = <<>> THEN messages
    ELSE [msgs |-> <<[role |-> "developer", content |-> Text(this.basePrompt)]>>
                   \o messages.msgs,
          more |-> messages.more]

\* LLMAgent.prependBasePrompt
prependBasePrompt(this, messages) ==
    IF this.basePrompt = <<>> THEN messages
    ELSE [msgs |-> <<[role |-> "developer", content |-> Text(this.basePrompt)]>>
                   \o SelectSeq(messages.msgs, LAMBDA m : m.role # "developer"),
          more |-> messages.more]

\* isBatchRequest, imported from types.js: the item holds a message list
isBatchRequest(prompt) == prompt.messages # None

\* the loop that opens LLMAgent.createBatch, over items of the batch-request
\* shape: an item without a message list reaches messages.filter with
\* something that has no filter unless the base prompt is empty
RECURSIVE createBatch_prepend(_, _, _)
createBatch_prepend(this, prompts, idx) ==
    IF idx > Len(prompts.items) THEN [error |-> None, prompts |-> prompts]
    ELSE LET prompt == prompts.items[idx]
         IN  IF isBatchRequest(prompt)
             THEN createBatch_prepend(this,
                      [prompts EXCEPT !.items[idx].messages =
                          Some(prependBasePrompt(this, Get(prompt.messages)))],
                      idx + 1)
             ELSE IF this.basePrompt = <<>>
             THEN createBatch_prepend(this, prompts, idx + 1)
             ELSE [error |-> Some(Err("TypeError")), prompts |-> prompts]

\* { ...options, agentName: this.name, sampleObj: this.sampleObj }
optionsWithAgent(this, options) ==
    [options EXCEPT !.agentName = Some(this.name),
                    !.sampleObj = this.sampleObj]

\* the catch clause the four batch operations share, around one stretch of
\* the adapter's handler
LLMAgent_catch(this, step) ==
    IF step.outcome.kind = "error"
    THEN IF this.provider = Provider.Google
         THEN Throw([Err("AgentBatchNotSupported") EXCEPT
                         !.agent = this.name, !.model = this.modelName])
         ELSE step
    ELSE step

\* LLMAgent.prompt to its await
LLMAgent_prompt(self, messages, options) ==
    LET this == self.agent
        messagesWithBasePrompt == prependBasePrompt(this, messages)
    IN  IF self.providerInstance.class = "GoogleProvider"
        THEN Google_prompt(self.providerInstance.this, messagesWithBasePrompt,
                           this.modelName, optionsWithAgent(this, options))
        ELSE OpenAI_prompt(self.providerInstance.this, messagesWithBasePrompt,
                           this.modelName, optionsWithAgent(this, options))

\* LLMAgent.createBatch to its first await
LLMAgent_createBatch(self, prompts, options, nows) ==
    LET this == self.agent
        prepared == createBatch_prepend(this, prompts, 1)
    IN  IF prepared.error # None THEN Throw(Get(prepared.error))
        ELSE LLMAgent_catch(this,
                 IF self.providerInstance.class = "GoogleProvider"
                 THEN Google_createBatch(this.modelName)
                 ELSE OpenAI_createBatch(self.providerInstance.this,
                          prepared.prompts, this.modelName,
                          optionsWithAgent(this, options), nows))

\* LLMAgent.checkBatch to its first await
LLMAgent_checkBatch(self, batchId) ==
    LLMAgent_catch(self.agent,
        IF self.providerInstance.class = "GoogleProvider"
        THEN Google_checkBatch(self.agent.modelName)
        ELSE OpenAI_checkBatch(self.providerInstance.this, batchId,
                               "checkBatch_check"))

\* LLMAgent.retrieveBatch to its first await
LLMAgent_retrieveBatch(self, batchId) ==
    LLMAgent_catch(self.agent,
        IF self.providerInstance.class = "GoogleProvider"
        THEN Google_retrieveBatch(self.agent.modelName)
        ELSE OpenAI_retrieveBatch(self.providerInstance.this, batchId))

\* LLMAgent.cancelBatch to its first await
LLMAgent_cancelBatch(self, batchId) ==
    LLMAgent_catch(self.agent,
        IF self.providerInstance.class = "GoogleProvider"
        THEN Google_cancelBatch(self.agent.modelName)
        ELSE OpenAI_cancelBatch(self.providerInstance.this, batchId))

\* the adapter's handler goes on when fetchFn resolves, inside the agent's
\* try for the batch operations, of which only the OpenAI adapter's suspend
LLMAgent_resumed(self, c, live, at, response) ==
    LET this == self.agent
        instance == self.providerInstance.this
    IN  IF at = "prompt_completion"
        THEN IF self.providerInstance.class = "GoogleProvider"
             THEN Google_prompt_completed(this.modelName,
                      optionsWithAgent(this, c.options), response)
             ELSE OpenAI_prompt_completed(this.modelName,
                      optionsWithAgent(this, c.options), response)
        ELSE
        LLMAgent_catch(this,
            CASE at = "createBatch_upload" ->
                   createBatch_uploaded(instance, live,
                       optionsWithAgent(this, c.options), response)
              [] at = "createBatch_create" -> createBatch_created(live, response)
              [] at = "checkBatch_check" -> checkBatch_fetched(c.batchId, response)
              [] at = "retrieveBatch_check" ->
                   retrieveBatch_checked(instance, c.batchId, response)
              [] at = "retrieveBatch_content" ->
                   retrieveBatch_downloaded(this.modelName, this.sampleObj,
                                            response)
              [] at = "cancelBatch_cancel" -> cancelBatch_fetched(response))

(***************************************************************************)
(* The agent's callers.                                                    *)
(***************************************************************************)
ModelKeys ==
    {<<Provider.Google, "/", ModelName.Gemini2Flash>>,
     <<Provider.Google, "/", ModelName.GPT4oMini>>,
     <<Provider.OpenAI, "/", ModelName.GPT4oMini>>,
     <<Provider.OpenAI, "/", ModelName.GPT4oMini, "/", "x">>,
     <<Provider.OpenAI, "/", ModelName.Gemini15>>,
     <<Provider.OpenAI>>,
     <<"invalid", "/", "model">>,
     <<"Google", "/", ModelName.Gemini2Flash>>,
     <<"/", ModelName.GPT4oMini>>}
BasePrompts == {<<>>, <<"B", "e", " ", "b", "r", "i", "e", "f">>}
AgentOptions ==
    [name : {<<"A", "g", "-", "1">>, <<"B">>}, basePrompt : BasePrompts,
     model : ModelKeys, apiKey : {ApiKey},
     sampleObj : {Undefined, NumV(0), SampleObject}]

AgentItems ==
    {[id |-> None, messages |-> Some(PlainMessages)],
     [id |-> Some(<<"a">>),
      messages |-> Some(MsgList(<<message("developer", Hi),
                                  message("user", Json)>>))],
     [id |-> None, messages |-> Some(MsgList(<<>>))],
     [id |-> Some(<<"a">>), messages |-> None]}
AgentPrompts ==
    {[items |-> items, more |-> 0] :
        items \in UNION {[1..n -> AgentItems] : n \in 0..MaxItems}}
AgentBatchOptions ==
    [sampleObj : {Undefined}, batchName : BatchNames, agentName : {None},
     user : {None}, timeoutSeconds : {None, Some(3601)}]
AgentDocuments == UNION {[1..n -> OutputLines] : n \in 0..1}
AgentMessageLists ==
    {MsgList(<<message("user", Json)>>),
     MsgList(<<message("developer", Json), message("user", Hi),
               message("assistant", Hi)>>),
     MsgList(<<message("user", Hi), message("developer", Hi),
               message("developer", Json)>>)}
AgentPromptOptions ==
    [sampleObj : {Undefined, SampleObject}, agentName : {None}, user : {None}]

\* what fetchFn may resolve to for a prompt
PromptSuccesses(provider) ==
    IF provider = Provider.Google
    THEN {Success([text |-> text, usageMetadata |-> UsageMetadata]) :
             text \in CompletionTexts}
    ELSE {Success([text |-> text, usage |-> Usage]) : text \in CompletionTexts}

\* what fetchFn may resolve to at each await of the OpenAI adapter
AgentSuccesses(at) ==
    CASE at = "createBatch_upload" -> {Success([id |-> id]) : id \in FileIds}
      [] at = "createBatch_create" -> {Success([id |-> id]) : id \in BatchIds}
      [] at \in {"checkBatch_check", "retrieveBatch_check"} ->
           {Success(statusData) : statusData \in StatusResponses}
      [] at = "retrieveBatch_content" ->
           {[ok |-> TRUE, text |-> document] : document \in AgentDocuments}
      [] at = "cancelBatch_cancel" -> {Success(<<>>)}
Awaits ==
    {"createBatch_upload", "createBatch_create", "checkBatch_check",
     "retrieveBatch_check", "retrieveBatch_content", "cancelBatch_cancel"}

NoAgent == [providerInstance |-> [class |-> "none"]]

AgentInit ==
    /\ pc = "new"
    /\ call = NoCall
    /\ locals = NoLocals
    /\ net = <<>>
    /\ replies = <<>>
    /\ outcome = NoOutcome
    /\ jobId = None
    /\ config = NoAgent

\* the caller constructs its agent; a constructor that throws leaves none
CreateAgent ==
    /\ pc = "new"
    /\ \E options \in AgentOptions :
         LET step == createAgent(options)
         IN  /\ call' = [op |-> "createAgent", options |-> options]
             /\ pc' = step.pc
             /\ outcome' = step.outcome
             /\ config' = IF step.outcome.kind = "ok"
                          THEN step.outcome.value ELSE config
    /\ UNCHANGED <<locals, net, replies, jobId>>

\* `caller` is the caller's own sequence as the call has left it
AgentPrompt ==
    /\ pc = "idle"
    /\ \E messages \in AgentMessageLists, options \in AgentPromptOptions :
         Begin([op |-> "prompt", messages |-> messages, options |-> options,
                caller |-> messages],
               LLMAgent_prompt(config, messages, options))

\* the loop writes prompts[idx], and prompts is the caller's sequence
AgentCreateBatch ==
    /\ pc = "idle"
    /\ \E prompts \in AgentPrompts, options \in AgentBatchOptions :
         \E nows \in Clocks(Len(prompts.items)) :
            Begin([op |-> "createBatch", prompts |-> prompts,
                   options |-> options,
                   caller |-> createBatch_prepend(config.agent, prompts,
                                                  1).prompts],
                  LLMAgent_createBatch(config, prompts, options, nows))

AgentCheckBatch ==
    /\ pc = "idle"
    /\ \E batchId \in FollowUpIds :
         Begin([op |-> "checkBatch", batchId |-> batchId],
               LLMAgent_checkBatch(config, batchId))

AgentRetrieveBatch ==
    /\ pc = "idle"
    /\ \E batchId \in FollowUpIds :
         Begin([op |-> "retrieveBatch", batchId |-> batchId],
               LLMAgent_retrieveBatch(config, batchId))

AgentCancelBatch ==
    /\ pc = "idle"
    /\ \E batchId \in FollowUpIds :
         Begin([op |-> "cancelBatch", batchId |-> batchId],
               LLMAgent_cancelBatch(config, batchId))

AgentFetchFailed ==
    /\ pc \in Awaits \cup {"prompt_completion"}
    /\ \E payload \in ErrorPayloads :
         LET response == Failure(payload)
         IN  Resume(response,
                    LLMAgent_resumed(config, call, locals, pc, response))

\* after createBatch has returned, the caller holds the job's id
AgentFetchSucceeded ==
    /\ pc \in Awaits \cup {"prompt_completion"}
    /\ \E response \in IF pc = "prompt_completion"
                       THEN PromptSuccesses(config.agent.provider)
                       ELSE AgentSuccesses(pc) :
         LET step == LLMAgent_resumed(config, call, locals, pc, response)
         IN  /\ Apply(step)
             /\ replies' = Append(replies, response)
             /\ jobId' = IF pc = "createBatch_create"
                         THEN Some(step.outcome.value.batchId) ELSE jobId
    /\ UNCHANGED <<call, config>>

\* the caller has the call's result; with an agent it goes on to the
\* agent's operations, without one it constructs again
AgentFinish ==
    /\ pc = "done"
    /\ pc' = IF call.op = "createAgent" /\ outcome.kind = "error"
             THEN "new" ELSE "idle"
    /\ call' = NoCall
    /\ locals' = NoLocals
    /\ net' = <<>>
    /\ replies' = <<>>
    /\ outcome' = NoOutcome
    /\ UNCHANGED <<jobId, config>>

AgentNext ==
    \/ CreateAgent \/ AgentPrompt
    \/ AgentCreateBatch \/ AgentCheckBatch
    \/ AgentRetrieveBatch \/ AgentCancelBatch
    \/ AgentFetchFailed \/ AgentFetchSucceeded
    \/ AgentFinish

AgentSpec == AgentInit /\ [][AgentNext]_vars

(***************************************************************************)
(* Calls in flight together on the same adapter instances.  Each caller    *)
(* has its own handler activation: its position, its locals, the requests  *)
(* it has issued and the responses it has been given; the instances are    *)
(* shared.  Here every variable but config and jobId is a function of the  *)
(* caller.                                                                 *)
(***************************************************************************)
Callers == 1..MaxCalls

\* the handler of call c from its entry to its first await
Adapter_begin(this, c) ==
    CASE c.op = "prompt" /\ c.provider = Provider.Google ->
           Google_prompt(this.google, c.messages, c.model, c.options)
      [] c.op = "prompt" /\ c.provider = Provider.OpenAI ->
           OpenAI_prompt(this.openai, c.messages, c.model, c.options)
      [] c.op = "createBatch" ->
           OpenAI_createBatch(this.openai, c.prompts, c.model, c.options, c.nows)
      [] c.op = "checkBatch" ->
           OpenAI_checkBatch(this.openai, c.batchId, "checkBatch_check")
      [] c.op = "retrieveBatch" -> OpenAI_retrieveBatch(this.openai, c.batchId)
      [] c.op = "cancelBatch" -> OpenAI_cancelBatch(this.openai, c.batchId)

\* the handler of call c, suspended at `at` with locals `live`, from the
\* response to its next await or its end
Adapter_resumed(this, c, live, at, response) ==
    CASE at = "prompt_completion" /\ c.provider = Provider.Google ->
           Google_prompt_completed(c.model, c.options, response)
      [] at = "prompt_completion" /\ c.provider = Provider.OpenAI ->
           OpenAI_prompt_completed(c.model, c.options, response)
      [] at = "createBatch_upload" ->
           createBatch_uploaded(this.openai, live, c.options, response)
      [] at = "createBatch_create" -> createBatch_created(live, response)
      [] at = "checkBatch_check" -> checkBatch_fetched(c.batchId, response)
      [] at = "retrieveBatch_check" ->
           retrieveBatch_checked(this.openai, c.batchId, response)
      [] at = "retrieveBatch_content" ->
           retrieveBatch_downloaded(c.model, c.sampleObj, response)
      [] at = "cancelBatch_cancel" -> cancelBatch_fetched(response)

\* handlers that keep their locals in a field of the instance, which every
\* activation overwrites
ConcurrentApply_instanceField(k, step) ==
    /\ pc' = [pc EXCEPT ![k] = step.pc]
    /\ outcome' = [outcome EXCEPT ![k] = step.outcome]
    /\ locals' = [j \in Callers |-> step.locals]
    /\ net' = [net EXCEPT ![k] = IF step.fetch = None THEN @
                                 ELSE Append(@, Get(step.fetch))]

\* the handler of caller k runs to its next await, or to its end: what it
\* declares (const modelInfo, const batchRequests, let jsonl, ...) is local
\* to its activation
ConcurrentApply(k, step) ==
    /\ pc' = [pc EXCEPT ![k] = step.pc]
    /\ outcome' = [outcome EXCEPT ![k] = step.outcome]
    /\ locals' = [locals EXCEPT ![k] = step.locals]
    /\ net' = [net EXCEPT ![k] = IF step.fetch = None THEN @
                                 ELSE Append(@, Get(step.fetch))]

ConcurrentBegin(k, c) ==
    /\ call' = [call EXCEPT ![k] = c]
    /\ ConcurrentApply(k, Adapter_begin(config, c))
    /\ replies' = [replies EXCEPT ![k] = <<>>]
    /\ UNCHANGED <<jobId, config>>

ConcurrentResume(k, response) ==
    /\ ConcurrentApply(k, Adapter_resumed(config, call[k], locals[k], pc[k],
                                          response))
    /\ replies' = [replies EXCEPT ![k] = Append(@, response)]
    /\ UNCHANGED <<call, jobId, config>>

ConcurrentPromptCalls ==
    [op : {"prompt"}, provider : Range(Provider),
     messages : {MsgList(<<message("user", Json)>>)},
     model : {ModelName.GPT4oMini, ModelName.Gemini2Flash},
     options : [sampleObj : {SampleObject}, agentName : {None}, user : {None}]]
ConcurrentBatchCalls ==
    [op : {"createBatch"}, provider : {Provider.OpenAI},
     prompts : {[items |-> <<[id |-> None, messages |-> Some(PlainMessages)]>>,
                 more |-> 0],
                [items |-> <<[id |-> Some(<<"a">>),
                              messages |-> Some(PlainMessages)],
                             [id |-> None, messages |-> Some(PlainMessages)]>>,
                 more |-> 0]},
     model : {ModelName.GPT4oMini},
     options : [sampleObj : {Undefined}, batchName : {None},
                agentName : {None}, user : {None}, timeoutSeconds : {None}],
     nows : {<<99, 100>>}]
ConcurrentStatuses ==
    [status : {"in_progress", "completed"}, output_file_id : Opt(FileIds),
     error_file_id : {None}]
ConcurrentDocuments ==
    {<<>>,
     <<Line("object", <<"a">>, None,
            Some([body |-> Some([text |-> "Paris", usage |-> Usage])]))>>}

\* what fetchFn may resolve to for call c suspended at `at`
ConcurrentSuccesses(c, at) ==
    CASE at = "prompt_completion" /\ c.provider = Provider.Google ->
           {Success([text |-> text, usageMetadata |-> UsageMetadata]) :
               text \in CompletionTexts}
      [] at = "prompt_completion" /\ c.provider = Provider.OpenAI ->
           {Success([text |-> text, usage |-> Usage]) : text \in CompletionTexts}
      [] at \in {"checkBatch_check", "retrieveBatch_check"} ->
           {Success(statusData) : statusData \in ConcurrentStatuses}
      [] at = "retrieveBatch_content" ->
           {[ok |-> TRUE, text |-> document] : document \in ConcurrentDocuments}
      [] OTHER -> AgentSuccesses(at)

ConcurrentInit ==
    /\ pc = [k \in Callers |-> "idle"]
    /\ call = [k \in Callers |-> NoCall]
    /\ locals = [k \in Callers |-> NoLocals]
    /\ net = [k \in Callers |-> <<>>]
    /\ replies = [k \in Callers |-> <<>>]
    /\ outcome = [k \in Callers |-> NoOutcome]
    /\ jobId = None
    /\ config = [openai |-> OpenAI_constructor(ApiKey),
                 google |-> Google_constructor(ApiKey)]

ConcurrentPrompt ==
    \E k \in Callers :
       /\ pc[k] = "idle"
       /\ \E c \in ConcurrentPromptCalls : ConcurrentBegin(k, c)

ConcurrentCreateBatch ==
    \E k \in Callers :
       /\ pc[k] = "idle"
       /\ \E c \in ConcurrentBatchCalls : ConcurrentBegin(k, c)

ConcurrentCheckBatch ==
    \E k \in Callers :
       /\ pc[k] = "idle"
       /\ ConcurrentBegin(k, [op |-> "checkBatch", provider |-> Provider.OpenAI,
                              batchId |-> <<"b", "_", "7", "_", "x">>])

ConcurrentRetrieveBatch ==
    \E k \in Callers :
       /\ pc[k] = "idle"
       /\ ConcurrentBegin(k, [op |-> "retrieveBatch",
                              provider |-> Provider.OpenAI,
                              batchId |-> <<"b", "7">>,
                              model |-> ModelName.GPT4oMini,
                              sampleObj |-> SampleObject])

ConcurrentCancelBatch ==
    \E k \in Callers :
       /\ pc[k] = "idle"
       /\ ConcurrentBegin(k, [op |-> "cancelBatch", provider |-> Provider.OpenAI,
                              batchId |-> <<"b", "7">>])

ConcurrentFetchFailed ==
    \E k \in Callers :
       /\ pc[k] \in Awaits \cup {"prompt_completion"}
       /\ ConcurrentResume(k, Failure("server_error"))

ConcurrentFetchSucceeded ==
    \E k \in Callers :
       /\ pc[k] \in Awaits \cup {"prompt_completion"}
       /\ \E response \in ConcurrentSuccesses(call[k], pc[k]) :
             ConcurrentResume(k, response)

ConcurrentNext ==
    \/ ConcurrentPrompt \/ ConcurrentCreateBatch \/ ConcurrentCheckBatch
    \/ ConcurrentRetrieveBatch \/ ConcurrentCancelBatch
    \/ ConcurrentFetchFailed \/ ConcurrentFetchSucceeded

ConcurrentSpec == ConcurrentInit /\ [][ConcurrentNext]_vars

(***************************************************************************)
(* Properties.  The errors by class, and the calls by adapter.             *)
(***************************************************************************)
ModelErrors == {"ModelNotFound"}
CapabilityErrors ==
    {"NoBatchSupport", "BatchRequestsNotSupported", "BatchOperationsNotSupported"}
ValidationErrors ==
    {"MissingJson", "PromptEmpty", "TooManyMessages", "TooManyRequests",
     "JsonlTooLarge"}
UnifiedStatuses == {"pending", "processing", "completed", "failed"}

IsCall(provider, op) == call.op = op /\ call.provider = provider
Failed == pc = "done" /\ outcome.kind = "error"
FailedWith(names) == Failed /\ outcome.error.name \in names
Succeeded == pc = "done" /\ outcome.kind = "ok"

\* the k-th request of the call in flight went to `resource`
Requested(k, resource) == Len(net) >= k /\ net[k].resource = resource

\* C1: retrieveBatch on the OpenAI adapter requests the output file only if
\* the status it fetched in this call maps to completed; when the mapped
\* status is pending, processing or failed, output file referenced or not,
\* the call has failed with the not-completed error after exactly one
\* transport call, the status fetch, and has returned nothing.
C1_DownloadOnlyWhenCompleted ==
    (IsCall(Provider.OpenAI, "retrieveBatch")
     /\ Len(replies) >= 1 /\ replies[1].ok)
    => LET mapped == mapOpenAIBatchStatus(replies[1].json.status)
       IN  /\ (\E k \in DOMAIN net : net[k].resource = "files")
                  => mapped = "completed"
           /\ mapped \in {"pending", "processing", "failed"}
                  => /\ FailedWith({"NotCompleted"})
                     /\ outcome.error.status = mapped
                     /\ Len(net) = 1
                     /\ Requested(1, "batches")

\* a failed job that references an output file: retrieveBatch has refused
\* after the status fetch alone
C1_FailedJobWithOutputFile ==
    /\ IsCall(Provider.OpenAI, "retrieveBatch")
    /\ Len(replies) = 1 /\ replies[1].ok
    /\ replies[1].json.status = "failed"
    /\ replies[1].json.output_file_id # None
    /\ FailedWith({"NotCompleted"})
    /\ Len(net) = 1

\* C2: every batch operation called on the Google adapter with a model of
\* its descriptor list has failed with a capability error that names that
\* model, and no request has been handed to the transport.
C2_GoogleBatchUnsupported ==
    (/\ call.op \in {"createBatch", "checkBatch", "retrieveBatch", "cancelBatch"}
     /\ call.provider = Provider.Google
     /\ call.model \in {Google_getModels[i].name : i \in DOMAIN Google_getModels})
    => /\ FailedWith(CapabilityErrors)
       /\ outcome.error.model = call.model
       /\ net = <<>>
       /\ replies = <<>>

\* cancelBatch on the Google adapter with one of its models has failed
C2_GoogleCancelRefused ==
    /\ IsCall(Provider.Google, "cancelBatch")
    /\ call.model = ModelName.Gemini15
    /\ FailedWith({"BatchOperationsNotSupported"})
    /\ outcome.error.model = ModelName.Gemini15
    /\ net = <<>>

\* C3: when prompt, on either adapter, or createBatch on the OpenAI adapter
\* fails with a model-not-found, capability or validation error, no request
\* has been handed to the transport during the call, whichever item the
\* validation failed on.
C3_FailFast ==
    (/\ \/ call.op = "prompt"
        \/ IsCall(Provider.OpenAI, "createBatch")
     /\ FailedWith(ModelErrors \cup CapabilityErrors \cup ValidationErrors))
    => net = <<>> /\ replies = <<>>

\* createBatch has failed on its second item, the first being valid
C3_SecondItemRejected ==
    /\ IsCall(Provider.OpenAI, "createBatch")
    /\ Len(call.prompts.items) = 2
    /\ call.prompts.items[1].messages = Some(PlainMessages)
    /\ FailedWith({"PromptEmpty", "TooManyMessages", "JsonlTooLarge"})
    /\ outcome.error.name = "JsonlTooLarge" \/ outcome.error.index = 1
    /\ net = <<>>

\* C4: the status checkBatch returns is the backend's status mapped by a
\* total function: validating and processing to processing, completed to
\* completed, failed, cancelled, cancelling and expired to failed, anything
\* else to pending; it is always one of the four unified statuses.
C4_StatusMapping ==
    (/\ IsCall(Provider.OpenAI, "checkBatch")
     /\ Len(replies) = 1 /\ replies[1].ok)
    => /\ Succeeded
       /\ LET backend == replies[1].json.status
              unified == outcome.value.status
          IN  /\ unified \in UnifiedStatuses
              /\ backend \in {"validating", "processing"}
                     => unified = "processing"
              /\ backend = "completed" => unified = "completed"
              /\ backend \in {"failed", "cancelled", "cancelling", "expired"}
                     => unified = "failed"
              /\ backend \notin {"validating", "processing", "completed",
                                 "failed", "cancelled", "cancelling", "expired"}
                     => unified = "pending"

\* checkBatch has returned pending for a status outside the mapped seven
C4_UnknownStatusIsPending ==
    /\ IsCall(Provider.OpenAI, "checkBatch")
    /\ Len(replies) = 1 /\ replies[1].ok
    /\ replies[1].json.status = "in_progress"
    /\ Succeeded
    /\ outcome.value.status = "pending"

\* the lines of the document the call in flight uploaded
UploadedLines == Get(net[1].body).file

\* C5: the job id createBatch returned, passed unchanged to checkBatch,
\* retrieveBatch or cancelBatch, is the id the request to the backend
\* targets (batches/{id}, batches/{id}/cancel), underscores or not.
C5_JobIdRoundTrips ==
    (/\ call.op \in {"checkBatch", "retrieveBatch", "cancelBatch"}
     /\ call.provider = Provider.OpenAI
     /\ jobId = Some(call.batchId)
     /\ Len(net) >= 1)
    => /\ net[1].resource = "batches"
       /\ net[1].id = jobId

\* C6: when createBatch has returned, its N items validated, uploaded and
\* submitted, the result carries the id the backend gave the job and
\* exactly N correlation ids, the k-th being the custom_id of the k-th line
\* of the uploaded document.
C6_IdsInSubmissionOrder ==
    (IsCall(Provider.OpenAI, "createBatch") /\ Succeeded)
    => /\ Len(replies) = 2
       /\ outcome.value.batchId = replies[2].json.id
       /\ Len(outcome.value.requestIds) = promptsLength(call.prompts)
       /\ Len(UploadedLines) = promptsLength(call.prompts)
       /\ \A k \in DOMAIN outcome.value.requestIds :
             outcome.value.requestIds[k] = UploadedLines[k].custom_id

\* createBatch has returned for two items, the first with an id of its own
\* and the second with a generated one
C6_TwoItemsSubmitted ==
    /\ IsCall(Provider.OpenAI, "createBatch")
    /\ Succeeded
    /\ promptsLength(call.prompts) = 2
    /\ call.prompts.items[1].id = Some(<<"a">>)
    /\ call.prompts.items[2].id = None
    /\ outcome.value.requestIds = <<<<"a">>, <<"9", "9", "_", "1">>>>
    /\ outcome.value.batchId = <<"b", "_", "7", "_", "x">>

\* the ids the items of a batch supply, once stripped to letters and
\* digits, differ from one another where they are not empty
SuppliedIdsDistinct(items) ==
    \A i, j \in DOMAIN items :
        (/\ i # j
         /\ items[i].id # None /\ items[j].id # None
         /\ Len(stripNonAlnum(Get(items[i].id))) > 0)
        => stripNonAlnum(Get(items[i].id)) # stripNonAlnum(Get(items[j].id))

CustomIdsDistinct ==
    \A i, j \in DOMAIN UploadedLines :
        i # j => UploadedLines[i].custom_id # UploadedLines[j].custom_id

\* C7, as claimed: the correlation ids of the items of one batch are
\* pairwise distinct, whatever batch name, agent name and item ids are given.
C7_IdsPairwiseDistinct ==
    (IsCall(Provider.OpenAI, "createBatch") /\ Requested(1, "files"))
    => CustomIdsDistinct

\* C7, amended: the correlation ids of the items of one batch are pairwise
\* distinct provided the ids the items supply, stripped to letters and
\* digits, are pairwise distinct where not empty.
C7_IdsDistinctUnlessSuppliedCollide ==
    (/\ IsCall(Provider.OpenAI, "createBatch")
     /\ Requested(1, "files")
     /\ SuppliedIdsDistinct(call.prompts.items))
    => CustomIdsDistinct

\* two items without ids of their own, read at the same clock value under
\* an agent name and a batch name, have been given ids that differ in the
\* index alone
C7_GeneratedIdsDifferByIndex ==
    /\ IsCall(Provider.OpenAI, "createBatch")
    /\ Requested(1, "files")
    /\ Len(UploadedLines) = 2
    /\ UploadedLines[1].custom_id =
          <<"A", "g", "1", "_", "C", "a", "p", "s", "_", "9", "9", "_", "0">>
    /\ UploadedLines[2].custom_id =
          <<"A", "g", "1", "_", "C", "a", "p", "s", "_", "9", "9", "_", "1">>

\* the lines of the downloaded document, as retrieveBatch splits it
DownloadedLines == trimSplit(replies[2].text)
Downloaded ==
    /\ IsCall(Provider.OpenAI, "retrieveBatch")
    /\ Len(replies) = 2 /\ replies[2].ok

\* a line that parses as a JSON object, carries no error and has a response
\* with a body
WellFormed(line) ==
    /\ line.kind = "object"
    /\ line.error = None
    /\ line.response # None
    /\ Get(line.response).body # None

\* C8: once the output document is downloaded, retrieveBatch does not abort
\* on a bad line: the lines that fail to parse, carry an error, or lack a
\* response or a response body are skipped, and what it returns is the
\* results of the remaining lines in the document's order.
C8_BadLinesSkipped ==
    Downloaded
    => LET remaining == SelectSeq(DownloadedLines, WellFormed)
       IN  /\ Succeeded
           /\ Len(outcome.value) = Len(remaining)
           /\ \A k \in DOMAIN remaining :
                 outcome.value[k].text = Get(Get(remaining[k].response).body).text

\* C9: the results retrieveBatch returns can be told apart by the
\* correlation ids of their lines: two results that come from lines with
\* different custom_ids are different results.
C9_ResultsTraceToCustomIds ==
    (Downloaded /\ Succeeded)
    => LET pushed == SelectSeq(DownloadedLines,
                         LAMBDA line : retrieveBatch_line(line, call.model,
                                           call.sampleObj).do = "push")
       IN  \A j, k \in DOMAIN pushed :
              (j <= Len(outcome.value) /\ k <= Len(outcome.value)
               /\ pushed[j].custom_id # pushed[k].custom_id)
              => outcome.value[j] # outcome.value[k]

\* C10: with structured output requested, createBatch fails with a
\* validation error, before any request, as soon as one item has no message
\* that contains "json", whatever the other items contain.
C10_JsonCheckedPerItem ==
    (/\ IsCall(Provider.OpenAI, "createBatch")
     /\ call.model = ModelName.GPT4oMini
     /\ promptsLength(call.prompts) <= MAX_BATCH_REQUESTS
     /\ needsStructuredOutput(call.options.sampleObj)
     /\ \A i \in DOMAIN call.prompts.items : call.prompts.items[i].messages # None
     /\ \E i \in DOMAIN call.prompts.items :
           ~someMessageIncludesJson(Get(call.prompts.items[i].messages)))
    => FailedWith(ValidationErrors) /\ net = <<>>

\* some position of the content starts the letters j, s, o, n, each in
\* either case
HoldsJsonAnyCase(content) ==
    \E i \in 1..(Len(content.chars) - 3) :
        /\ content.chars[i] \in {"j", "J"}
        /\ content.chars[i + 1] \in {"s", "S"}
        /\ content.chars[i + 2] \in {"o", "O"}
        /\ content.chars[i + 3] \in {"n", "N"}

\* the adapter of the call in flight knows the model it was called with
ModelKnown ==
    findModel(IF call.provider = Provider.OpenAI THEN OpenAI_getModels
              ELSE Google_getModels, call.model) # None

\* C11: OpenAI prompt, structured output requested (the adapter's flag: an
\* example that is truthy and not a string), has failed with the
\* missing-"json" validation error, and without a transport call, exactly
\* when no message content holds "json" in any letter case; without
\* structured output requested it never fails so.
C11_JsonMarkerRequired ==
    (IsCall(Provider.OpenAI, "prompt") /\ ModelKnown)
    => LET marked == \E i \in DOMAIN call.messages.msgs :
                         HoldsJsonAnyCase(call.messages.msgs[i].content)
           requested == needsStructuredOutput(call.options.sampleObj)
       IN  /\ FailedWith({"MissingJson"}) <=> (requested /\ ~marked)
           /\ FailedWith({"MissingJson"}) => net = <<>> /\ replies = <<>>
           /\ (requested /\ marked) => Requested(1, "chat/completions")

\* an OpenAI prompt with an object example and no "json" in its messages
\* has failed before any request
C11_MissingMarkerRejected ==
    /\ IsCall(Provider.OpenAI, "prompt")
    /\ call.options.sampleObj = SampleObject
    /\ call.messages = MsgList(<<message("user", Hi)>>)
    /\ FailedWith({"MissingJson"})
    /\ net = <<>>

\* what the request of a prompt carries to have the backend enforce JSON
Enforced ==
    IF call.provider = Provider.OpenAI
    THEN Get(net[1].body).response_format # None
    ELSE Get(net[1].body).generationConfig.response_mime_type # None

\* C12: in prompt on both adapters structured output is requested if and
\* only if an example is supplied and is not a string, 0 and false included;
\* a string example or none never has it enforced.
C12_RequestedIffNonStringExample ==
    (call.op = "prompt" /\ Len(net) >= 1)
    => (Enforced <=> (call.options.sampleObj.t # "undefined"
                      /\ typeof(call.options.sampleObj) # "string"))

\* C13: for every successful response to prompt the call has returned with
\* text and data: text is the completion text; data is the parsed JSON
\* when structured output was requested (the adapter's flag) and the text is
\* valid JSON, and is the text otherwise.
C13_DataDecoding ==
    (call.op = "prompt" /\ Len(replies) = 1 /\ replies[1].ok)
    => LET text == replies[1].json.text
           requested == needsStructuredOutput(call.options.sampleObj)
       IN  /\ Succeeded
           /\ outcome.value.text = text
           /\ (requested /\ text = "{\"answer\":\"Paris\"}")
                 => outcome.value.data =
                       ObjV(<< <<<<"a", "n", "s", "w", "e", "r">>, StrV("Paris")>> >>)
           /\ (~requested \/ text = "Paris")
                 => outcome.value.data = StrV(text)

\* an OpenAI prompt with an object example was answered with text that is
\* not JSON and has returned the text as data
C13_FallsBackToText ==
    /\ IsCall(Provider.OpenAI, "prompt")
    /\ call.options.sampleObj = SampleObject
    /\ Len(replies) = 1 /\ replies[1].ok
    /\ replies[1].json.text = "Paris"
    /\ Succeeded
    /\ outcome.value.data = StrV("Paris")
    /\ outcome.value.text = "Paris"

\* C14: a prompt that passes model resolution and validation hands exactly
\* one request to the transport; on a non-success response the call has
\* failed with the adapter's upstream error carrying the backend's payload,
\* and no second request was made.
C14_OneTransportCall ==
    call.op = "prompt"
    => /\ Len(net) <= 1
       /\ (pc # "done" \/ ~FailedWith(ModelErrors \cup ValidationErrors))
             => Len(net) = 1
       /\ (Len(replies) = 1 /\ ~replies[1].ok)
             => /\ FailedWith({IF call.provider = Provider.OpenAI
                               THEN "OpenAIApiError" ELSE "GoogleApiError"})
                /\ outcome.error.payload = replies[1].error
                /\ Len(net) = 1

\* a Google prompt was answered with a server error and has failed with it
C14_UpstreamErrorSurfaced ==
    /\ IsCall(Provider.Google, "prompt")
    /\ Len(replies) = 1 /\ ~replies[1].ok
    /\ FailedWith({"GoogleApiError"})
    /\ outcome.error.payload = "server_error"
    /\ Len(net) = 1

\* the position of the last message with role user, if there is one
LastUser(msgs) ==
    {i \in DOMAIN msgs :
        msgs[i].role = "user" /\ \A j \in (i + 1)..Len(msgs) : msgs[j].role # "user"}

\* `out` is `sent` but for the instruction: appended to the content at the
\* position of the last user message of `orig`, or carried by one more user
\* message at the end when `orig` has no user message
OnlyInstructionAdded(orig, sent, out) ==
    IF LastUser(orig) # {}
    THEN LET k == CHOOSE i \in LastUser(orig) : TRUE
         IN  /\ Len(out) = Len(sent)
             /\ \A i \in DOMAIN out : i # k => out[i] = sent[i]
             /\ out[k].role = sent[k].role
             /\ out[k].content.pad = sent[k].content.pad
             /\ startsWith(out[k].content.chars,
                           sent[k].content.chars \o <<"\n", "\n">>
                               \o StructureInstruction)
    ELSE /\ Len(out) = Len(sent) + 1
         /\ SubSeq(out, 1, Len(sent)) = sent
         /\ out[Len(out)].role = "user"
         /\ startsWith(out[Len(out)].content.chars, StructureInstruction)

\* the messages of a Google request body, as role and content
GoogleContents(contents) ==
    [i \in DOMAIN contents |->
        [role |-> contents[i].role, content |-> contents[i].parts[1].text]]

\* C15: with structured output requested (the adapter's flag), the request
\* body prompt builds for a descriptor with native structured output
\* carries the native enforcement (OpenAI response_format json_object;
\* Google response_mime_type and response_schema) and the input messages as
\* they are; for a descriptor without it the messages differ from the input
\* only by the instruction on the last user message, or by one more user
\* message when there is none.
C15_NativeOrInjected ==
    (/\ call.op = "requestBody"
     /\ pc = "done"
     /\ needsStructuredOutput(call.options.sampleObj))
    => LET native == call.modelInfo.capabilities.structuredOutput
           orig == call.messages.msgs
           body == outcome.value
       IN  IF call.provider = Provider.OpenAI
           THEN /\ native => /\ body.response_format = Some("json_object")
                             /\ body.messages = call.messages
                /\ ~native => OnlyInstructionAdded(orig, orig, body.messages.msgs)
           ELSE LET sent == GoogleContents(Google_formatMessages(call.messages))
                    out == GoogleContents(body.contents)
                IN  /\ native
                       => /\ body.generationConfig.response_mime_type
                               = Some("application/json")
                          /\ body.generationConfig.response_schema # None
                          /\ out = sent
                    /\ ~native => OnlyInstructionAdded(orig, sent, out)

\* the OpenAI request body for a descriptor without native structured
\* output and messages without a user message has one more message
C15_InstructionAppended ==
    /\ call.op = "requestBody"
    /\ pc = "done"
    /\ call.provider = Provider.OpenAI
    /\ ~call.modelInfo.capabilities.structuredOutput
    /\ call.options.sampleObj = SampleObject
    /\ call.messages = MsgList(<<message("assistant", Hi)>>)
    /\ Len(outcome.value.messages.msgs) = 2
    /\ outcome.value.messages.msgs[1] = message("assistant", Hi)

\* C16: enhancePromptWithStructure leaves the caller's list and its
\* messages as they were and returns a list equal to the input but for one
\* position: the last user message replaced by one with the instruction
\* appended to its content, or, without a user message, one more user
\* message at the end carrying the instruction.
C16_EnhanceFrame ==
    (call.op = "enhancePromptWithStructure" /\ pc = "done")
    => /\ locals.messages = call.messages
       /\ outcome.value.more = call.messages.more
       /\ OnlyInstructionAdded(call.messages.msgs, call.messages.msgs,
                               outcome.value.msgs)

\* enhancePromptWithStructure has returned a list whose third message, the
\* last of two user messages, is changed, the caller's list being as before
C16_LastUserReplaced ==
    /\ call.op = "enhancePromptWithStructure"
    /\ pc = "done"
    /\ Len(call.messages.msgs) = 4
    /\ locals.messages = call.messages
    /\ outcome.value.msgs[1] = call.messages.msgs[1]
    /\ outcome.value.msgs[3] # call.messages.msgs[3]
    /\ outcome.value.msgs[4] = call.messages.msgs[4]

\* t seconds rounded up to whole hours
HoursRoundedUp(t) == CHOOSE h \in -1..30 : h * 3600 >= t /\ (h - 1) * 3600 < t

\* C17: the completion window sent at job creation is a whole number of
\* hours from 1 to 24: for every timeout the caller supplies, zero and
\* negative ones included, the timeout rounded up to hours and clamped into
\* [1, 24]; 24 hours when no timeout is given.
C17_CompletionWindowClamped ==
    (IsCall(Provider.OpenAI, "createBatch") /\ Requested(2, "batches"))
    => LET window == Get(net[2].body).completion_window
           timeout == call.options.timeoutSeconds
           hours == IF timeout = None THEN 24
                    ELSE Min(Max(HoursRoundedUp(Get(timeout)), 1), 24)
       IN  /\ \E h \in 1..24 : window = numberToString(h) \o <<"h">>
           /\ window = numberToString(hours) \o <<"h">>

\* the item has no message list, an empty one, or one over the limit
BadItem(item) ==
    \/ item.messages = None
    \/ length(Get(item.messages)) = 0
    \/ length(Get(item.messages)) > 2048

\* the item alone encodes to more than 200MB
HugeItem(item) ==
    /\ item.messages # None
    /\ \E i \in DOMAIN Get(item.messages).msgs :
          TextLen(Get(item.messages).msgs[i].content) >= 200000000

\* C18: createBatch rejects with a validation error every batch of more
\* than 50000 items, every batch whose encoded payload exceeds 200MB and
\* every batch with an item whose message list is missing, empty or longer
\* than 2048 messages; a batch within these bounds is not rejected by these
\* checks.
C18_LimitsEnforced ==
    (IsCall(Provider.OpenAI, "createBatch") /\ call.model = ModelName.GPT4oMini)
    => LET items == call.prompts.items
           outside == \/ promptsLength(call.prompts) > 50000
                      \/ \E i \in DOMAIN items : BadItem(items[i])
                      \/ \E i \in DOMAIN items : HugeItem(items[i])
       IN  /\ outside => FailedWith(ValidationErrors)
           /\ ~outside => ~FailedWith({"TooManyRequests", "PromptEmpty",
                                       "TooManyMessages", "JsonlTooLarge"})

\* the characters of a model key before its first "/"
ProviderSegment(key) == IF key = <<>> \/ key[1] = "/" THEN "" ELSE key[1]

\* the class of the adapter each provider stands for
AdapterOf(provider) ==
    IF provider = Provider.Google THEN "GoogleProvider" ELSE "OpenAIProvider"

\* C19: constructing an agent settles its adapter from the provider segment
\* of the model key: when the segment is neither google nor openai the
\* construction has failed with the unsupported-provider error, which names
\* the segment, and no agent exists; when it is google or openai the
\* construction has returned an agent that holds that provider's adapter,
\* and every later state finds the agent bound to the same adapter.
C19_ProviderResolvedAtConstruction ==
    /\ (pc = "done" /\ call.op = "createAgent") =>
          LET segmentOfKey == ProviderSegment(call.options.model)
          IN  IF segmentOfKey \in {Provider.Google, Provider.OpenAI}
              THEN /\ outcome.kind = "ok"
                   /\ outcome.value.agent.provider = segmentOfKey
                   /\ outcome.value.providerInstance.class = AdapterOf(segmentOfKey)
                   /\ config = outcome.value
              ELSE /\ outcome.kind = "error"
                   /\ outcome.error.name = "UnsupportedProvider"
                   /\ outcome.error.provider = segmentOfKey
                   /\ config = NoAgent
    /\ (pc # "new" /\ call.op # "createAgent") =>
          /\ config.agent.provider = ProviderSegment(config.agent.model)
          /\ config.agent.provider \in {Provider.Google, Provider.OpenAI}
          /\ config.providerInstance.class = AdapterOf(config.agent.provider)

\* a key with an unknown provider segment has been refused
C19_UnknownProviderRefused ==
    /\ pc = "done" /\ call.op = "createAgent"
    /\ call.options.model = <<"invalid", "/", "model">>
    /\ outcome.kind = "error"
    /\ outcome.error.name = "UnsupportedProvider"
    /\ outcome.error.provider = "invalid"

AgentBatchOps == {"createBatch", "checkBatch", "retrieveBatch", "cancelBatch"}

\* what the OpenAI adapter, called as the agent calls it, does with the
\* answers the transport has given so far
AdapterOutcomes ==
    LET this == config.agent
        instance == config.providerInstance.this
        last == replies[Len(replies)]
    IN  IF replies = <<>>
        THEN {OpenAI_createBatch(instance,
                  createBatch_prepend(this, call.prompts, 1).prompts,
                  this.modelName, optionsWithAgent(this, call.options),
                  nows).outcome :
                 nows \in Clocks(Len(call.prompts.items))}
        ELSE IF call.op = "createBatch" /\ Len(replies) = 1
        THEN {createBatch_uploaded(instance, NoLocals,
                  optionsWithAgent(this, call.options), last).outcome}
        ELSE IF call.op = "createBatch"
        THEN {createBatch_created(NoLocals, last).outcome}
        ELSE IF call.op = "checkBatch"
        THEN {checkBatch_fetched(call.batchId, last).outcome}
        ELSE IF call.op = "cancelBatch"
        THEN {cancelBatch_fetched(last).outcome}
        ELSE IF Len(replies) = 1
        THEN {retrieveBatch_checked(instance, call.batchId, last).outcome}
        ELSE {retrieveBatch_downloaded(this.modelName, this.sampleObj,
                                       last).outcome}

\* C20: when createBatch, checkBatch, retrieveBatch or cancelBatch of an
\* agent has failed, an agent bound to the Google adapter has failed with
\* the capability error that names the agent and its model, and an agent
\* bound to the OpenAI adapter has failed with exactly the error the
\* adapter threw.
C20_BatchFailuresByProvider ==
    (Failed /\ call.op \in AgentBatchOps) =>
        IF config.providerInstance.class = "GoogleProvider"
        THEN outcome.error =
                [Err("AgentBatchNotSupported") EXCEPT
                     !.agent = config.agent.name,
                     !.model = config.agent.modelName]
        ELSE outcome \in AdapterOutcomes

\* C21: cancelBatch on the OpenAI adapter issues one request, the POST to
\* batches/{id}/cancel, and no status request before it; once it is done it
\* has returned true when that request succeeded and has failed with the
\* cancellation error carrying the backend's payload when it did not, and it
\* has never returned false.
C21_CancelOnceTrueOrUpstreamError ==
    IsCall(Provider.OpenAI, "cancelBatch") =>
        /\ Len(net) = 1
        /\ net[1].method = "POST" /\ net[1].resource = "batches"
        /\ net[1].id = Some(actualBatchId(call.batchId))
        /\ net[1].suffix = Some("cancel")
        /\ pc = "done" =>
             /\ Len(replies) = 1
             /\ IF replies[1].ok
                THEN outcome = Returned(TRUE)
                ELSE /\ outcome.kind = "error"
                     /\ outcome.error.name = "CancelBatchFailed"
                     /\ outcome.error.payload = replies[1].error

\* the backend has refused a cancellation and the call has failed
C21_RefusedCancellationFails ==
    /\ IsCall(Provider.OpenAI, "cancelBatch") /\ pc = "done"
    /\ Len(replies) = 1 /\ ~replies[1].ok
    /\ FailedWith({"CancelBatchFailed"})
    /\ outcome.error.payload = "server_error"

SchemaMarkers == {"STRING", "NUMBER", "BOOLEAN"}

\* the marker of a leaf: that of its type, and STRING for any other leaf
LeafMarker(v) ==
    CASE v.t = "number" -> "NUMBER"
      [] v.t = "boolean" -> "BOOLEAN"
      [] OTHER -> "STRING"

\* schema has the shape of the example v
RECURSIVE Mirrors(_, _)
Mirrors(v, schema) ==
    /\ "type" \in DOMAIN schema
    /\ CASE v.t = "object" ->
              /\ schema.type = "OBJECT"
              /\ DOMAIN schema = {"type", "properties"}
              /\ DOMAIN schema.properties = DOMAIN v.o
              /\ \A i \in DOMAIN v.o :
                    /\ schema.properties[i][1] = v.o[i][1]
                    /\ Mirrors(v.o[i][2], schema.properties[i][2])
         [] v.t = "array" ->
              /\ schema.type = "ARRAY"
              /\ DOMAIN schema = {"type", "items"}
              /\ IF Len(v.a) = 0
                 THEN schema.items = [type |-> "STRING"]
                 ELSE Mirrors(v.a[1], schema.items)
         [] OTHER -> schema = [type |-> LeafMarker(v)]

\* C22: objectToGoogleSchema returns, for every example built from strings,
\* numbers, booleans, null, arrays and objects, a schema of the example's
\* shape: an object gives OBJECT with the example's keys, a non-empty array
\* gives ARRAY with the items of its first element, an empty array gives
\* ARRAY of STRING, and every leaf, null included, gives a type marker.
C22_SchemaMirrorsExample ==
    (call.op = "objectToGoogleSchema" /\ pc = "done") =>
        /\ outcome.kind = "ok"
        /\ Mirrors(call.sampleObj, outcome.value)

\* what call c does when it runs alone and the transport answers rs
RECURSIVE RunAlone(_, _, _)
RunAlone(this, c, rs) ==
    IF rs = <<>>
    THEN LET step == Adapter_begin(this, c)
         IN  [pc |-> step.pc, outcome |-> step.outcome, locals |-> step.locals,
              net |-> IF step.fetch = None THEN <<>> ELSE <<Get(step.fetch)>>]
    ELSE LET before == RunAlone(this, c, SubSeq(rs, 1, Len(rs) - 1))
             step == Adapter_resumed(this, c, before.locals, before.pc,
                                     rs[Len(rs)])
         IN  [pc |-> step.pc, outcome |-> step.outcome, locals |-> step.locals,
              net |-> IF step.fetch = None THEN before.net
                      ELSE Append(before.net, Get(step.fetch))]

\* C23: however the calls in flight on the adapters interleave, the
\* adapters' configuration is the one their constructors set, and every
\* call has issued the requests, holds the locals and has the result that
\* the same call has when it runs alone and is given the same responses.
C23_CallsDoNotInterfere ==
    /\ config = [openai |-> OpenAI_constructor(ApiKey),
                 google |-> Google_constructor(ApiKey)]
    /\ \A k \in Callers :
          call[k].op # "none" =>
             LET alone == RunAlone(config, call[k], replies[k])
             IN  /\ pc[k] = alone.pc
                 /\ net[k] = alone.net
                 /\ locals[k] = alone.locals
                 /\ outcome[k] = alone.outcome

\* a createBatch has returned its ids while a prompt, begun on the same
\* adapter while it was suspended, is still waiting for its answer
C23_BatchCreatedAmidOtherCall ==
    \E k, j \in Callers :
       /\ k # j
       /\ call[k].op = "createBatch" /\ pc[k] = "done"
       /\ outcome[k].kind = "ok" /\ Len(net[k]) = 2
       /\ call[j].op = "prompt" /\ call[j].provider = Provider.OpenAI
       /\ pc[j] = "prompt_completion"

\* C24: when createBatch of an agent bound to the OpenAI adapter has
\* returned, the batch id in what it returned contains the agent's name.
C24_BatchIdNamesAgent ==
    (call.op = "createBatch" /\ Succeeded
       /\ config.providerInstance.class = "OpenAIProvider") =>
        includes(outcome.value.batchId, config.agent.name)

\* C25: when prompt of an agent is called with a non-string example in the
\* call's options and the completion text the backend returned is valid
\* JSON, the data of the result is the value parsed from the text.
C25_PerCallExampleParsed ==
    (call.op = "prompt" /\ Succeeded
       /\ needsStructuredOutput(call.options.sampleObj)
       /\ JSON_parse(outcome.value.text) # None) =>
        outcome.value.data = Get(JSON_parse(outcome.value.text))

\* C26: what retrieveBatch returns for a downloaded document is, line by
\* surviving line and in the document's order, the completion text and the
\* data prompt gives for that text: the parsed value when a non-string
\* example is supplied and the text is valid JSON, the raw text otherwise;
\* no surviving line is dropped because its text is not valid JSON.
C26_LinesDecodedAsPrompt ==
    (Downloaded /\ Succeeded)
    => LET surviving == SelectSeq(DownloadedLines, WellFormed)
       IN  /\ Len(outcome.value) = Len(surviving)
           /\ \A k \in DOMAIN surviving :
                 LET text == Get(Get(surviving[k].response).body).text
                 IN  k <= Len(outcome.value) =>
                       /\ outcome.value[k].text = text
                       /\ outcome.value[k].data =
                             prompt_data(needsStructuredOutput(call.sampleObj),
                                         text)

\* C27: in createBatch on the OpenAI adapter the first request is the upload
\* to files and at most one more follows, the job creation at batches; the
\* job creation has been issued only after the upload was answered with
\* success and names the file id of that answer; when the upload was
\* refused no further request has been issued and the call has failed.
C27_UploadBeforeJob ==
    IsCall(Provider.OpenAI, "createBatch") =>
        /\ Len(net) <= 2
        /\ Len(net) >= 1 => net[1].resource = "files"
        /\ Len(net) = 2 =>
              /\ net[2].resource = "batches"
              /\ Len(replies) >= 1 /\ replies[1].ok
              /\ Get(net[2].body).input_file_id = replies[1].json.id
        /\ (Len(replies) >= 1 /\ ~replies[1].ok) =>
              /\ Len(net) = 1
              /\ FailedWith({"UploadFailed"})

\* the upload has been refused and no job has been submitted
C27_UploadRefusedNoJob ==
    /\ IsCall(Provider.OpenAI, "createBatch") /\ pc = "done"
    /\ Len(replies) = 1 /\ ~replies[1].ok
    /\ Len(net) = 1 /\ net[1].resource = "files"
    /\ FailedWith({"UploadFailed"})

\* C28: prompt and createBatch of an agent leave the caller's sequences as
\* they were passed: during and after the call the caller's message list,
\* and the caller's list of batch items with each item's message list, hold
\* the elements they held when the call was made.
C28_CallerSequencesUntouched ==
    /\ call.op = "prompt" => call.caller = call.messages
    /\ call.op = "createBatch" => call.caller = call.prompts

\* an item's id is usable when letters or digits are left of it
UsableId(item) ==
    item.id # None /\ \E k \in DOMAIN Get(item.id) : IsAlnum(Get(item.id)[k])

\* the characters of s after its last underscore
AfterLastUnderscore(s) ==
    LET last == CHOOSE k \in DOMAIN s :
                   s[k] = "_" /\ \A m \in (k + 1)..Len(s) : s[m] # "_"
    IN  SubSeq(s, last + 1, Len(s))

\* C29: in the document one createBatch call uploads, an item without a
\* usable id has an id that contains an underscore and ends in the item's
\* index, an item with a usable id has the letters and digits of that id and
\* nothing else, and the generated ids differ from one another and from
\* every id taken from an item.
C29_GeneratedIdsApart ==
    (IsCall(Provider.OpenAI, "createBatch") /\ Requested(1, "files")) =>
        LET items == call.prompts.items
        IN  /\ Len(UploadedLines) = Len(items)
            /\ \A i \in DOMAIN items :
                  LET id == UploadedLines[i].custom_id
                  IN  IF UsableId(items[i])
                      THEN /\ id = SelectSeq(Get(items[i].id), IsAlnum)
                           /\ \A k \in DOMAIN id : IsAlnum(id[k])
                      ELSE /\ \E k \in DOMAIN id : id[k] = "_"
                           /\ AfterLastUnderscore(id) = numberToString(i - 1)
            /\ \A i, j \in DOMAIN items :
                  (i # j /\ ~UsableId(items[i])) =>
                     UploadedLines[i].custom_id # UploadedLines[j].custom_id

\* an item with the id "a-" and an item whose id "-" holds no letter or
\* digit have been submitted in one batch: the first goes by "a", the
\* second by a generated id that ends in its index
C29_GeneratedBesideSupplied ==
    /\ IsCall(Provider.OpenAI, "createBatch") /\ Requested(1, "files")
    /\ Len(call.prompts.items) = 2
    /\ call.prompts.items[1].id = Some(<<"a", "-">>)
    /\ call.prompts.items[2].id = Some(<<"-">>)
    /\ UploadedLines[1].custom_id = <<"a">>
    /\ AfterLastUnderscore(UploadedLines[2].custom_id) = <<"1">>

\* the message lists the agent's call in progress hands to prependBasePrompt
PrependInputs ==
    IF call.op = "prompt" THEN {call.messages}
    ELSE IF call.op = "createBatch"
    THEN {Get(call.prompts.items[k].messages) :
             k \in {i \in DOMAIN call.prompts.items :
                       isBatchRequest(call.prompts.items[i])}}
    ELSE {}

IsDeveloper(m) == m.role = "developer"
NotDeveloper(m) == m.role # "developer"

\* C30: for every message list an agent's prompt or createBatch hands to
\* prependBasePrompt, with a non-empty base prompt the result holds exactly
\* one developer message, first, with the base prompt as its content, and
\* after it the non-developer messages of the input in their order, and
\* prependBasePrompt of the result is the result; with an empty base prompt
\* the result is the input.  The items createBatch has rewritten hold these
\* results.
C30_PrependNormalises ==
    /\ \A messages \in PrependInputs :
          LET this == config.agent
              out == prependBasePrompt(this, messages)
          IN  IF this.basePrompt = <<>> THEN out = messages
              ELSE /\ Len(out.msgs) >= 1
                   /\ out.msgs[1] = [role |-> "developer",
                                     content |-> Text(this.basePrompt)]
                   /\ Len(SelectSeq(out.msgs, IsDeveloper)) = 1
                   /\ Tail(out.msgs) = SelectSeq(messages.msgs, NotDeveloper)
                   /\ prependBasePrompt(this, out) = out
    /\ (call.op = "createBatch"
          /\ \A i \in DOMAIN call.prompts.items :
                isBatchRequest(call.prompts.items[i])) =>
          \A i \in DOMAIN call.prompts.items :
             call.caller.items[i].messages =
                Some(prependBasePrompt(config.agent,
                                       Get(call.prompts.items[i].messages)))

\* an agent with a base prompt has been prompted with a list that holds two
\* developer messages after a user message
C30_DeveloperMessagesReplaced ==
    /\ call.op = "prompt"
    /\ config.agent.basePrompt # <<>>
    /\ Len(SelectSeq(call.messages.msgs, IsDeveloper)) = 2
    /\ call.messages.msgs[1].role = "user"
    /\ Len(net) = 1
====
